---- MODULE Spec2Model ----
(***************************************************************************)
(* Reconcilers of chaos-mesh: the common experiment reconciler             *)
(* (controllers/common), the schedule pause propagator                     *)
(* (controllers/schedule/pause) and the parallel workflow node reconciler  *)
(* (pkg/workflow/controllers).  Each reconciler works on its own object    *)
(* key and shares no state with the others, so a behaviour follows one of  *)
(* them, chosen by ctl in the initial state.  The chaos daemon             *)
(* (pkg/chaosdaemon), the fault executor the implementations call, is      *)
(* followed in the same way.                                               *)
(***************************************************************************)
EXTENDS Integers, Sequences, FiniteSets, TLC

VARIABLES
    ctl,          \* what this behaviour follows: "exp", "pause", "par", "dns",
                  \* "http", "tbf", "api", "name", "core"
    pc,           \* position of the running Reconcile pass ("idle" between passes)
    chaos,        \* the stored experiment object
    selectors,    \* names of the selectors the experiment declares
    outer,        \* the copy of the object fetched at the start of the pass
    desiredPhase, \* local desiredPhase of the pass
    records,      \* local records slice of the pass
    shouldUpdate, \* local dirty flag of the pass
    index,        \* loop index of the pass (1-based)
    held,         \* the copy the retry closure fetched and is about to Update
    steps,        \* attempts of retry.RetryOnConflict spent in the current retry
    ret,          \* what Reconcile returns: "none" (still running), "nil", "err"
    log,          \* history: one entry per record examined in this pass
    resolved,     \* history: selectors resolved in this pass
    selResult,    \* history: what each resolved selector returned
    prevFailed,   \* history: selectors that failed in the last pass that fetched
    faults,       \* history: the records whose fault is in place, and how the last
                  \* status write of the experiment ended
    failed,       \* history: some failure occurred in this pass
    updateError,  \* local updateError of the pass: "nil", "conflict", "notfound", "error"
    wrote,        \* history: number of successful Updates of this pass
    tried,        \* history: number of Update calls of the current retry
    attemptVer,   \* history: stored version when the current attempt did its Get
    budget,       \* failures the environment may still inject (liveness runs)
    schedule,     \* the stored Schedule
    jobs,         \* the stored jobs of the schedule, by job id
    items,        \* the list ListActiveJobs returned to the pass
    touched,      \* history: per job, the Gets and Updates the pass made on it
    events,       \* history: warning events the pass emitted on the schedule
    node,         \* the stored WorkflowNode
    workflow,     \* whether the parent Workflow of the node exists
    children,     \* the stored child nodes of the node
    toCreate,     \* the rendered children the pass still has to create
    made,         \* history: what the pass deleted and created
    resolvConf,   \* the lines of /etc/resolv.conf in the container
    resolvBak,    \* the backup file /etc/resolv.conf.chaos.bak
    dnsRet,       \* what the last SetDNSServer call returned: "none", "nil", "err"
    dnsHist,      \* history: the SetDNSServer calls since the last recover
    httpChaos,    \* the HTTPChaos object a pass of its reconciler works on
    pods,         \* the pods SelectAndFilterPods returns for it
    group,        \* the errgroup of applyAllPods: the goroutines and the first error
    sent,         \* per pod, the chain operations sent to its daemon
    bandwidth,    \* the BandwidthSpec ToTbf is called on
    tbf,          \* what ToTbf returned for it
    experiment,   \* the experiment object the API server stores
    edited,       \* the copy of it a client works on
    verdict,      \* what the validating webhook answered to the last update
    created,      \* history: the spec the experiment was created with
    generated,    \* the generated node name getTaskNameFromGeneratedName is called on
    taskName,     \* what it returned
    kubeNodes,    \* the stored WorkflowNodes of the workflow a read asks for
    detail        \* the read path called and how the call ended

pauseVars == <<schedule, jobs, items, touched, events>>
parVars == <<node, workflow, children, toCreate, made>>
expVars == <<chaos, selectors, desiredPhase, records, shouldUpdate, log, resolved,
             selResult, prevFailed, faults>>

daemonVars == <<resolvConf, resolvBak, dnsRet, dnsHist>>
httpVars == <<httpChaos, pods, group, sent>>
tbfVars == <<bandwidth, tbf>>
webhookVars == <<experiment, edited, verdict, created>>
nameVars == <<generated, taskName>>
coreVars == <<kubeNodes, detail>>
libVars == <<nameVars, coreVars>>
apiVars == <<tbfVars, webhookVars, libVars>>
sideVars == <<daemonVars, httpVars, apiVars>>
passVars == <<pc, outer, index, held, steps, ret, failed, updateError, wrote, tried,
              attemptVer>>

vars == <<ctl, pc, chaos, selectors, outer, desiredPhase, records, shouldUpdate,
          index, held, steps, ret, log, resolved, selResult, prevFailed, faults, failed,
          updateError, wrote, tried, attemptVer, budget, pauseVars, parVars,
          sideVars>>

----------------------------------------------------------------------------
(* Bounds of the model *)
MaxTargets == 1
MaxFaults == 2
MaxJobs == 3
MaxTasks == 2
MaxKids == 2
MaxGen == 1
MaxLines == 3
MaxDigits == 2
MaxInstant == 1
MaxDurLen == 3
MaxPods == 2
MaxNameLen == 3
MaxNodes == 2

(* Steps of retry.DefaultBackoff, the budget of the experiment and pause retries *)
DefaultBackoffSteps == 4

(* Steps of retry.DefaultRetry, the budget of the parallel node retry *)
DefaultRetrySteps == 5

Targets == 1..MaxTargets
SelectorNames == {"a", "b"}

NotInjected == "Not Injected"
Injected == "Injected"
Phases == {NotInjected, Injected}

RunningPhase == "Run"
StoppedPhase == "Stop"
DesiredPhases == {RunningPhase, StoppedPhase, ""}

NoObj == [exists |-> FALSE, ver |-> 0, desired |-> "", records |-> <<>>]

(* The resourceVersion of a stored object is an opaque token: all a client can
   observe is whether the token of the copy it holds is still the stored one.
   The model counts the writes of a pass in ver; when a pass returns no copy is
   held any more, and the count starts again. *)
Renumbered(obj) == [obj EXCEPT !.ver = 0]

(* The token after a write of another writer: a new one while a pass holds a
   copy, and the renumbered one between passes. *)
NextVer(v) == IF pc = "idle" THEN 0 ELSE v + 1

----------------------------------------------------------------------------
(* Helpers *)

RECURSIVE SetToSeq(_)
SetToSeq(S) ==
    IF S = {} THEN <<>>
    ELSE LET m == CHOOSE x \in S : \A y \in S : x <= y
         IN <<m>> \o SetToSeq(S \ {m})

Orders(S) == {f \in [1..Cardinality(S) -> S] : \A i, j \in DOMAIN f : i # j => f[i] # f[j]}

(* Outcomes of selector.Select for one selector: a set of targets, or an error
   and no target *)
SelFail == [err |-> TRUE, targets |-> {}]
SelectOutcomes == {[err |-> FALSE, targets |-> T] : T \in SUBSET Targets} \cup {SelFail}

TargetsOf(res) == res.targets

(* Mutant of NewRecords: the last target of the selector gets no record *)
NewRecordsShort(name, targets) ==
    [i \in 1..(Cardinality(targets) - 1) |->
        [id |-> SetToSeq(targets)[i], key |-> name, phase |-> NotInjected]]

(* controller.go:90-97: one NotInjected record per target of the selector *)
NewRecords(name, targets) ==
    [i \in 1..Cardinality(targets) |->
        [id |-> SetToSeq(targets)[i], key |-> name, phase |-> NotInjected]]

(* controller.go:79-98: the range over the selector map, in the order it yields *)
RECURSIVE Populate(_, _, _)
Populate(order, res, k) ==
    IF k > Len(order) THEN <<>>
    ELSE NewRecords(order[k], TargetsOf(res[order[k]])) \o Populate(order, res, k + 1)

(* Mutant of NeedsPopulate: the records are populated in every pass *)
NeedsPopulateAlways(recs) == TRUE

(* controller.go:77: the records are populated when the fetched list is nil *)
NeedsPopulate(recs) == recs = <<>>

(* Mutant of Dispatch: Apply does not look at the phase of the record *)
DispatchBlindApply(desired, phase) ==
    IF desired = RunningPhase THEN "Apply"
    ELSE IF desired = StoppedPhase /\ phase # NotInjected THEN "Recover"
    ELSE "none"

(* Mutant of Dispatch: a stopped experiment is never recovered *)
DispatchNoRecover(desired, phase) ==
    IF desired = RunningPhase /\ phase # Injected THEN "Apply" ELSE "none"

(* controller.go:105 and 115: the action one record gets *)
Dispatch(desired, phase) ==
    IF desired = RunningPhase /\ phase # Injected THEN "Apply"
    ELSE IF desired = StoppedPhase /\ phase # NotInjected THEN "Recover"
    ELSE "none"

(* What ChaosImpl.Apply / Recover may return: the phase reached and no error,
   or an error together with either phase. *)
ImplOutcomes(op) ==
    {[err |-> FALSE, phase |-> IF op = "Apply" THEN Injected ELSE NotInjected]}
    \cup {[err |-> TRUE, phase |-> p] : p \in Phases}

(* controller.go:107 and 117: record.Phase, err = r.Impl.Apply/Recover(...) *)
PhaseAfter(before, out) == out.phase

(* Mutant of AfterCall: the loop stops at the first failing call *)
AfterCallAbort(i, err, n) == IF err THEN n + 1 ELSE i + 1

(* controller.go:102: the loop goes on to the next record whatever the call returned *)
AfterCall(i, err, n) == i + 1

(* Mutant of ExpRetryFetch: the closure reuses the copy of the first Get *)
ExpRetryFetchStale(stored, outerObj) == outerObj

(* controller.go:130-135: the closure fetches a fresh copy of the object *)
ExpRetryFetch(stored, outerObj) == stored

(* Mutant of ExpMutate: the closure writes the fetched copy as it is *)
ExpMutateNothing(obj, recs) == obj

(* controller.go:137: the closure puts the records of the pass into the fresh copy *)
ExpMutate(obj, recs) == [obj EXCEPT !.records = recs]

(* Mutant of RetryLeft: a conflict is always retried *)
RetryForever(spent, limit) == TRUE

(* retry.RetryOnConflict: a conflict is retried while steps remain *)
RetryLeft(spent, limit) == spent < limit

Keys(recs) == [i \in 1..Len(recs) |-> <<recs[i].id, recs[i].key>>]

CanFail(lim) == ~lim \/ budget > 0
Spend(lim, bad) == IF lim /\ bad THEN budget - 1 ELSE budget

----------------------------------------------------------------------------
(* Initial states *)

NoFaults == [applied |-> {}, write |-> "none"]

InitPass ==
    /\ pc = "idle"
    /\ outer = NoObj
    /\ index = 1
    /\ held = NoObj
    /\ steps = 0
    /\ ret = "none"
    /\ failed = FALSE
    /\ updateError = "nil"
    /\ wrote = 0
    /\ tried = 0
    /\ attemptVer = 0

InitExpLocals ==
    /\ desiredPhase = ""
    /\ records = <<>>
    /\ shouldUpdate = FALSE
    /\ log = <<>>
    /\ resolved = {}
    /\ selResult = <<>>
    /\ prevFailed = {}
    /\ faults = NoFaults

InitExpVars ==
    /\ chaos = NoObj
    /\ selectors = {}
    /\ InitExpLocals

InitExp ==
    /\ ctl = "exp"
    /\ selectors \in {{"a"}, SelectorNames}
    /\ \E d \in DesiredPhases :
          chaos = [exists |-> TRUE, ver |-> 0, desired |-> d, records |-> <<>>]
    /\ InitExpLocals

----------------------------------------------------------------------------
(* The experiment reconciler, controllers/common/controller.go *)

ResetPass ==
    /\ outer' = NoObj
    /\ desiredPhase' = ""
    /\ records' = <<>>
    /\ shouldUpdate' = FALSE
    /\ index' = 1
    /\ held' = NoObj
    /\ steps' = 0
    /\ ret' = "none"
    /\ log' = <<>>
    /\ resolved' = {}
    /\ selResult' = <<>>
    /\ failed' = FALSE
    /\ updateError' = "nil"
    /\ wrote' = 0
    /\ tried' = 0
    /\ attemptVer' = 0

(* controller.go:59-100: Get the object, read its status, populate the records *)
ExpFetch(lim) ==
    /\ UNCHANGED <<pauseVars, parVars, sideVars>>
    /\ ctl = "exp" /\ pc = "idle"
    /\ UNCHANGED <<ctl, chaos, selectors, held, steps, log, prevFailed, faults,
                   updateError, wrote, tried, attemptVer, index>>
    /\ \/ /\ ~chaos.exists                       \* not found
          /\ pc' = "done" /\ ret' = "nil"
          /\ UNCHANGED <<outer, desiredPhase, records, shouldUpdate, resolved,
                         selResult, failed, budget>>
       \/ /\ chaos.exists /\ CanFail(lim)         \* another Get error
          /\ pc' = "done" /\ ret' = "nil" /\ failed' = TRUE
          /\ budget' = Spend(lim, TRUE)
          /\ UNCHANGED <<outer, desiredPhase, records, shouldUpdate, resolved, selResult>>
       \/ /\ chaos.exists
          /\ outer' = chaos
          /\ desiredPhase' = chaos.desired
          /\ pc' = "iter" /\ ret' = "none"
          /\ IF NeedsPopulate(chaos.records)
             THEN \E order \in Orders(selectors), res \in [selectors -> SelectOutcomes] :
                    LET bad == \E s \in selectors : res[s].err
                        recs == chaos.records \o Populate(order, res, 1)
                    IN /\ bad => CanFail(lim)
                       /\ budget' = Spend(lim, bad)
                       /\ records' = recs
                       /\ shouldUpdate' = (Len(recs) > Len(chaos.records))
                       /\ resolved' = selectors
                       /\ selResult' = res
                       /\ failed' = bad
             ELSE /\ records' = chaos.records
                  /\ shouldUpdate' = FALSE
                  /\ resolved' = {}
                  /\ selResult' = <<>>
                  /\ failed' = FALSE
                  /\ budget' = budget

(* controller.go:102-125: one iteration of the loop over the records *)
ExpIterate(lim) ==
    /\ UNCHANGED <<pauseVars, parVars, sideVars>>
    /\ ctl = "exp" /\ pc = "iter" /\ index <= Len(records)
    /\ LET before == records[index].phase
           op == Dispatch(desiredPhase, before)
       IN IF op = "none"
          THEN /\ log' = Append(log, [op |-> op, before |-> before, err |-> FALSE, phase |-> before])
               /\ index' = index + 1
               /\ UNCHANGED <<records, shouldUpdate, failed, budget, faults>>
          ELSE \E out \in ImplOutcomes(op) :
               /\ out.err => CanFail(lim)
               /\ budget' = Spend(lim, out.err)
               /\ records' = [records EXCEPT ![index].phase = PhaseAfter(before, out)]
               /\ shouldUpdate' = TRUE
               /\ failed' = (failed \/ out.err)
               /\ log' = Append(log, [op |-> op, before |-> before, err |-> out.err, phase |-> out.phase])
               /\ index' = AfterCall(index, out.err, Len(records))
               /\ faults' = [faults EXCEPT !.applied =
                                IF out.err THEN @
                                ELSE IF op = "Apply"
                                     THEN @ \cup {<<records[index].id, records[index].key>>}
                                     ELSE @ \ {<<records[index].id, records[index].key>>}]
    /\ UNCHANGED <<ctl, pc, chaos, selectors, outer, desiredPhase, held, steps, ret,
                   resolved, selResult, prevFailed, updateError, wrote, tried,
                   attemptVer>>

(* controller.go:127 and 145: after the loop, update if dirty, else return *)
ExpLoopEnd ==
    /\ UNCHANGED <<pauseVars, parVars, sideVars>>
    /\ ctl = "exp" /\ pc = "iter" /\ index > Len(records)
    /\ IF shouldUpdate THEN pc' = "get" /\ ret' = ret
                       ELSE pc' = "done" /\ ret' = "nil"
    /\ UNCHANGED <<ctl, chaos, selectors, outer, desiredPhase, records, shouldUpdate,
                   index, held, steps, log, resolved, selResult, prevFailed, faults,
                   failed, updateError, wrote, tried, attemptVer, budget>>

(* controller.go:130-135: the Get of one retry attempt *)
ExpRetryGet(lim) ==
    /\ UNCHANGED <<pauseVars, parVars, sideVars>>
    /\ ctl = "exp" /\ pc = "get"
    /\ UNCHANGED <<ctl, chaos, selectors, outer, desiredPhase, records, shouldUpdate,
                   index, steps, log, resolved, selResult, prevFailed,
                   wrote, tried>>
    /\ \/ /\ chaos.exists
          /\ held' = ExpMutate(ExpRetryFetch(chaos, outer), records)
          /\ attemptVer' = chaos.ver
          /\ pc' = "update"
          /\ UNCHANGED <<ret, failed, updateError, budget, faults>>
       \/ /\ ~chaos.exists \/ CanFail(lim)        \* not found, or another error
          /\ pc' = "done" /\ ret' = "nil" /\ failed' = TRUE
          /\ updateError' = IF chaos.exists THEN "error" ELSE "notfound"
          /\ budget' = Spend(lim, chaos.exists)
          /\ faults' = [faults EXCEPT !.write = "failed"]
          /\ UNCHANGED <<held, attemptVer>>

(* controller.go:138-143: the Update of one retry attempt, and what
   RetryOnConflict does with its result *)
ExpRetryUpdate(lim) ==
    /\ UNCHANGED <<pauseVars, parVars, sideVars>>
    /\ ctl = "exp" /\ pc = "update"
    /\ tried' = tried + 1
    /\ UNCHANGED <<ctl, selectors, outer, desiredPhase, records, shouldUpdate, index,
                   held, log, resolved, selResult, prevFailed, attemptVer>>
    /\ \/ /\ chaos.exists /\ held.ver = chaos.ver      \* accepted
          /\ chaos' = [held EXCEPT !.ver = chaos.ver + 1]
          /\ wrote' = wrote + 1
          /\ pc' = "done" /\ ret' = "nil"
          /\ faults' = [faults EXCEPT !.write = "ok"]
          /\ UNCHANGED <<steps, failed, updateError, budget>>
       \/ /\ chaos.exists /\ held.ver # chaos.ver      \* conflict
          /\ steps' = steps + 1
          /\ IF RetryLeft(steps + 1, DefaultBackoffSteps)
             THEN pc' = "get" /\ UNCHANGED <<ret, failed, updateError, faults>>
             ELSE /\ pc' = "done" /\ ret' = "nil" /\ failed' = TRUE
                  /\ updateError' = "conflict"
                  /\ faults' = [faults EXCEPT !.write = "failed"]
          /\ UNCHANGED <<chaos, wrote, budget>>
       \/ /\ ~chaos.exists \/ CanFail(lim)             \* not found, or another error
          /\ pc' = "done" /\ ret' = "nil" /\ failed' = TRUE
          /\ updateError' = IF chaos.exists THEN "error" ELSE "notfound"
          /\ budget' = Spend(lim, chaos.exists)
          /\ faults' = [faults EXCEPT !.write = "failed"]
          /\ UNCHANGED <<chaos, steps, wrote>>

(* controller.go:68 and 145: Reconcile returns *)
ExpReturn ==
    /\ UNCHANGED <<pauseVars, parVars, sideVars>>
    /\ ctl = "exp" /\ pc = "done"
    /\ pc' = "idle"
    /\ prevFailed' = IF outer.exists
                     THEN {s \in resolved : selResult[s].err}
                     ELSE prevFailed
    /\ ResetPass
    /\ chaos' = Renumbered(chaos)
    /\ UNCHANGED <<ctl, selectors, budget, faults>>

(* Another writer updates the experiment.  The pass reads the stored object at
   its first Get and in its retry attempts only, and reads the desired phase at
   the first Get only.  Between passes the writer may set the desired phase;
   during a pass only a write that falls between the Get and the Update of an
   attempt is seen by the pass, as a conflict, and one such write per attempt
   is all the pass can tell apart. *)
ExpExternalUpdate ==
    /\ UNCHANGED <<pauseVars, parVars, sideVars>>
    /\ ctl = "exp" /\ chaos.exists
    /\ \/ pc = "idle"
       \/ pc = "update" /\ held.ver = chaos.ver
    /\ \E d \in DesiredPhases :
          /\ IF pc = "idle" THEN d # chaos.desired ELSE d = chaos.desired
          /\ chaos' = [chaos EXCEPT !.desired = d, !.ver = NextVer(@)]
    /\ UNCHANGED <<ctl, pc, selectors, outer, desiredPhase, records, shouldUpdate,
                   index, held, steps, ret, log, resolved, selResult, prevFailed,
                   faults, failed, updateError, wrote, tried, attemptVer, budget>>

(* The experiment is deleted *)
ExpExternalDelete ==
    /\ UNCHANGED <<pauseVars, parVars, sideVars>>
    /\ ctl = "exp" /\ chaos.exists
    /\ pc \in {"idle", "get", "update"}
    /\ chaos' = [chaos EXCEPT !.exists = FALSE]
    /\ UNCHANGED <<ctl, pc, selectors, outer, desiredPhase, records, shouldUpdate,
                   index, held, steps, ret, log, resolved, selResult, prevFailed,
                   faults, failed, updateError, wrote, tried, attemptVer, budget>>

----------------------------------------------------------------------------
(* The pause propagator, controllers/schedule/pause/controller.go *)

JobIds == 1..MaxJobs
Annotations == {"none", "true", "false"}
NoJob == [id |-> 0, exists |-> FALSE, ver |-> 0, ann |-> "none"]
NoTouch == [j \in JobIds |-> [got |-> FALSE, updates |-> 0]]

(* Mutant of IsPaused: any pause annotation means paused *)
IsPausedIfAnnotated(obj) == obj.ann # "none"

(* IsPaused of an experiment kind: the pause annotation is "true" *)
IsPaused(obj) == obj.ann = "true"

(* pause/controller.go:67: strconv.FormatBool(schedule.IsPaused()) *)
FormatBool(b) == IF b THEN "true" ELSE "false"

(* Mutant of Disagrees: every listed job is updated *)
DisagreesAlways(item, sched) == TRUE

(* pause/controller.go:62: the job disagrees with the schedule *)
Disagrees(item, sched) == IsPaused(item) # sched.paused

(* pause/controller.go:72: the closure fetches the job again into item *)
PauseRetryFetch(stored, item) == stored

(* Mutant of PauseMutate: the closure leaves the annotation as fetched *)
PauseMutateNothing(obj, pause) == obj

(* pause/controller.go:76-79: the closure sets the pause annotation *)
PauseMutate(obj, pause) == [obj EXCEPT !.ann = pause]

(* Mutant of OnUpdateError: the loop goes on with the next job *)
OnUpdateErrorContinue == [pc |-> "loop", skip |-> 1]

(* pause/controller.go:83-87: a failed job update ends the pass *)
OnUpdateError == [pc |-> "done", skip |-> 0]

(* ListActiveJobs: the existing jobs of the schedule, as stored *)
ActiveJobs == SetToSeq({j \in JobIds : jobs[j].exists})
ListItems == [i \in 1..Len(ActiveJobs) |-> jobs[ActiveJobs[i]]]

InitPauseVars ==
    /\ schedule = [exists |-> FALSE, paused |-> FALSE]
    /\ jobs = [j \in JobIds |-> NoJob]
    /\ items = <<>>
    /\ touched = NoTouch
    /\ events = 0

InitPause ==
    /\ ctl = "pause"
    /\ \E p \in BOOLEAN : schedule = [exists |-> TRUE, paused |-> p]
    /\ \E a \in [JobIds -> Annotations], e \in [JobIds -> BOOLEAN] :
          jobs = [j \in JobIds |-> [id |-> j, exists |-> e[j], ver |-> 0, ann |-> a[j]]]
    /\ items = <<>>
    /\ touched = NoTouch
    /\ events = 0

(* pause/controller.go:44-59: Get the schedule and list its active jobs *)
PauseFetch(lim) ==
    /\ UNCHANGED <<expVars, parVars, sideVars>>
    /\ ctl = "pause" /\ pc = "idle"
    /\ UNCHANGED <<ctl, schedule, jobs, touched, held, steps, updateError, wrote, tried,
                   attemptVer, index>>
    /\ \/ /\ ~schedule.exists                         \* not found
          /\ pc' = "done" /\ ret' = "nil"
          /\ UNCHANGED <<outer, items, events, failed, budget>>
       \/ /\ schedule.exists /\ CanFail(lim)           \* another Get error
          /\ pc' = "done" /\ ret' = "nil" /\ failed' = TRUE
          /\ budget' = Spend(lim, TRUE)
          /\ UNCHANGED <<outer, items, events>>
       \/ /\ schedule.exists /\ CanFail(lim)           \* ListActiveJobs fails
          /\ outer' = schedule
          /\ events' = events + 1
          /\ pc' = "done" /\ ret' = "nil" /\ failed' = TRUE
          /\ budget' = Spend(lim, TRUE)
          /\ UNCHANGED items
       \/ /\ schedule.exists
          /\ outer' = schedule
          /\ items' = ListItems
          /\ pc' = "loop" /\ ret' = "none"
          /\ UNCHANGED <<events, failed, budget>>

(* pause/controller.go:60-68 and 89-91: the loop over the listed jobs *)
PauseLoop ==
    /\ UNCHANGED <<expVars, parVars, sideVars>>
    /\ ctl = "pause" /\ pc = "loop"
    /\ UNCHANGED <<ctl, outer, held, updateError, wrote, attemptVer, failed,
                   budget, pauseVars>>
    /\ IF index > Len(items)
       THEN pc' = "done" /\ ret' = "nil" /\ UNCHANGED <<index, steps, tried>>
       ELSE IF Disagrees(items[index], outer)
            THEN pc' = "get" /\ steps' = 0 /\ tried' = 0 /\ UNCHANGED <<index, ret>>
            ELSE index' = index + 1 /\ UNCHANGED <<pc, steps, tried, ret>>

(* pause/controller.go:72-79: the Get of one retry attempt, and the mutation *)
PauseRetryGet(lim) ==
    /\ UNCHANGED <<expVars, parVars, sideVars>>
    /\ ctl = "pause" /\ pc = "get"
    /\ UNCHANGED <<ctl, outer, steps, wrote, tried, schedule, jobs, items>>
    /\ LET j == items[index].id
       IN \/ /\ jobs[j].exists
             /\ held' = PauseMutate(PauseRetryFetch(jobs[j], items[index]),
                                    FormatBool(outer.paused))
             /\ attemptVer' = jobs[j].ver
             /\ touched' = [touched EXCEPT ![j].got = TRUE]
             /\ pc' = "update"
             /\ UNCHANGED <<index, ret, failed, updateError, events, budget>>
          \/ /\ ~jobs[j].exists \/ CanFail(lim)        \* not found, or another error
             /\ updateError' = IF jobs[j].exists THEN "error" ELSE "notfound"
             /\ events' = events + 1
             /\ pc' = OnUpdateError.pc /\ index' = index + OnUpdateError.skip
             /\ ret' = "nil" /\ failed' = TRUE
             /\ budget' = Spend(lim, jobs[j].exists)
             /\ UNCHANGED <<held, attemptVer, touched>>

(* pause/controller.go:81-87: the Update of one retry attempt, and what
   RetryOnConflict and the caller do with its result *)
PauseRetryUpdate(lim) ==
    /\ UNCHANGED <<expVars, parVars, sideVars>>
    /\ ctl = "pause" /\ pc = "update"
    /\ tried' = tried + 1
    /\ UNCHANGED <<ctl, outer, held, attemptVer, schedule, items>>
    /\ LET j == items[index].id
       IN \/ /\ jobs[j].exists /\ held.ver = jobs[j].ver       \* accepted
             /\ jobs' = [jobs EXCEPT ![j] = [held EXCEPT !.ver = jobs[j].ver + 1]]
             /\ touched' = [touched EXCEPT ![j].updates = @ + 1]
             /\ wrote' = wrote + 1
             /\ index' = index + 1
             /\ pc' = "loop"
             /\ UNCHANGED <<steps, ret, failed, updateError, events, budget>>
          \/ /\ jobs[j].exists /\ held.ver # jobs[j].ver       \* conflict
             /\ steps' = steps + 1
             /\ IF RetryLeft(steps + 1, DefaultBackoffSteps)
                THEN pc' = "get" /\ UNCHANGED <<ret, failed, updateError, events>>
                ELSE /\ updateError' = "conflict"
                     /\ events' = events + 1
                     /\ pc' = OnUpdateError.pc /\ ret' = "nil" /\ failed' = TRUE
             /\ index' = IF RetryLeft(steps + 1, DefaultBackoffSteps)
                         THEN index ELSE index + OnUpdateError.skip
             /\ UNCHANGED <<jobs, touched, wrote, budget>>
          \/ /\ ~jobs[j].exists \/ CanFail(lim)                \* not found, or another error
             /\ updateError' = IF jobs[j].exists THEN "error" ELSE "notfound"
             /\ events' = events + 1
             /\ pc' = OnUpdateError.pc /\ index' = index + OnUpdateError.skip
             /\ ret' = "nil" /\ failed' = TRUE
             /\ budget' = Spend(lim, jobs[j].exists)
             /\ UNCHANGED <<jobs, touched, wrote, steps>>

(* pause/controller.go:50, 56, 86 and 91: Reconcile returns *)
PauseReturn ==
    /\ UNCHANGED <<expVars, parVars, sideVars>>
    /\ ctl = "pause" /\ pc = "done"
    /\ pc' = "idle"
    /\ outer' = NoObj /\ index' = 1 /\ held' = NoObj /\ steps' = 0 /\ ret' = "none"
    /\ failed' = FALSE /\ updateError' = "nil" /\ wrote' = 0 /\ tried' = 0
    /\ attemptVer' = 0
    /\ items' = <<>> /\ touched' = NoTouch /\ events' = 0
    /\ jobs' = [j \in JobIds |-> Renumbered(jobs[j])]
    /\ UNCHANGED <<ctl, schedule, budget>>

(* The schedule is paused or resumed.  A pass reads the schedule at its first
   Get only, so a change during a pass is seen as one that follows it. *)
ScheduleToggle ==
    /\ UNCHANGED <<expVars, parVars, sideVars>>
    /\ ctl = "pause" /\ pc = "idle" /\ schedule.exists
    /\ schedule' = [schedule EXCEPT !.paused = ~@]
    /\ UNCHANGED <<ctl, pc, outer, index, held, steps, ret, failed, updateError, wrote,
                   tried, attemptVer, budget, jobs, items, touched, events>>

(* The schedule is deleted.  A pass reads the schedule at its first Get only. *)
ScheduleDelete ==
    /\ UNCHANGED <<expVars, parVars, sideVars>>
    /\ ctl = "pause" /\ pc = "idle" /\ schedule.exists
    /\ schedule' = [schedule EXCEPT !.exists = FALSE]
    /\ UNCHANGED <<ctl, pc, outer, index, held, steps, ret, failed, updateError, wrote,
                   tried, attemptVer, budget, jobs, items, touched, events>>

(* Another writer updates a job (the job's own reconciler writes its status).
   Only a write that falls between the Get and the Update of an attempt for
   that job is seen by the pass, as a conflict. *)
JobExternalUpdate(j) ==
    /\ UNCHANGED <<expVars, parVars, sideVars>>
    /\ ctl = "pause" /\ jobs[j].exists
    /\ pc = "update" /\ items[index].id = j /\ held.ver = jobs[j].ver
    /\ jobs' = [jobs EXCEPT ![j].ver = @ + 1]
    /\ UNCHANGED <<ctl, pc, outer, index, held, steps, ret, failed, updateError, wrote,
                   tried, attemptVer, budget, schedule, items, touched, events>>

(* A job is deleted after it was listed.  A pass reads a stored job again in
   the retry attempts for that job only. *)
JobExternalDelete(j) ==
    /\ UNCHANGED <<expVars, parVars, sideVars>>
    /\ ctl = "pause" /\ jobs[j].exists
    /\ pc \in {"get", "update"} /\ items[index].id = j
    /\ jobs' = [jobs EXCEPT ![j].exists = FALSE]
    /\ UNCHANGED <<ctl, pc, outer, index, held, steps, ret, failed, updateError, wrote,
                   tried, attemptVer, budget, schedule, items, touched, events>>

----------------------------------------------------------------------------
(* The parallel node reconciler, pkg/workflow/controllers/parallel_node_reconciler.go *)

TaskNames == {"a", "b"}
TaskLists == UNION {[1..n -> TaskNames] : n \in 0..MaxTasks}
KidIds == 1..MaxKids
NoNode == [exists |-> FALSE, type |-> "", tasks |-> <<>>, ver |-> 0, gen |-> 0,
           active |-> {}, finished |-> {}, accomplished |-> "none"]
NoMade == [listed |-> FALSE, deleted |-> {}, created |-> {}, redefined |-> FALSE,
           scheduled |-> <<>>, createErr |-> FALSE]

TypeParallel == "Parallel"

(* Mutant of IsParallel: every node is resolved *)
IsParallelAlways(n) == TRUE

(* parallel_node_reconciler.go:69: only parallel nodes are resolved *)
IsParallel(n) == n.type = TypeParallel

(* strings.LastIndex for a separator of one character: the index, from 0, of
   its last instance in s, or -1 *)
LastIndex(s, sep) ==
    LET at == {i \in 1..Len(s) : s[i] = sep}
    IN IF at = {} THEN -1 ELSE (CHOOSE i \in at : \A j \in at : j <= i) - 1

(* strings.Index, in the same way *)
Index(s, sep) ==
    LET at == {i \in 1..Len(s) : s[i] = sep}
    IN IF at = {} THEN -1 ELSE (CHOOSE i \in at : \A j \in at : i <= j) - 1

(* Mutant of getTaskNameFromGeneratedName: the name is cut at its first
   separator *)
getTaskNameFromFirstSeparator(generatedNodeName) ==
    LET cut == Index(generatedNodeName, "-")
    IN IF cut < 0 THEN generatedNodeName ELSE SubSeq(generatedNodeName, 1, cut)

(* parallel_node_reconciler.go:219-225: the generated name up to its last
   separator.  A name is the sequence of its characters. *)
getTaskNameFromGeneratedName(generatedNodeName) ==
    LET cut == LastIndex(generatedNodeName, "-")
    IN IF cut < 0 THEN generatedNodeName ELSE SubSeq(generatedNodeName, 1, cut)

(* The name of a child as renderNodesByTemplates generates it: the task name,
   the separator and a suffix of its own.  The task names of the reconciler
   model have one character. *)
NameOf(kid) == <<kid.task, "-", ToString(kid.id)>>

(* The task of the reconciler model a generated name derives from *)
TaskOf(name) == getTaskNameFromGeneratedName(name)[1]

(* Mutant of relativeComplementSet: nothing of former is taken away *)
relativeComplementKeepAll(former, latter) == former

(* parallel_node_reconciler.go:227-245: the elements of former not in latter *)
relativeComplementSet(former, latter) == former \ latter

Range(f) == {f[i] : i \in DOMAIN f}

(* fetchChildrenNodes: the children of the node, active and finished *)
ActiveChildren(kids) == {k \in kids : ~k.finished}
FinishedChildren(kids) == {k \in kids : k.finished}

(* parallel_node_reconciler.go:150-155: the task names of the existing children *)
PrefixNames(kids) == {TaskOf(NameOf(k)) : k \in kids}

(* Mutant of Redefined: a redefinition is never seen *)
RedefinedNever(kids, tasks) == FALSE

(* parallel_node_reconciler.go:159: the declared tasks were redefined *)
Redefined(kids, tasks) == relativeComplementSet(PrefixNames(kids), Range(tasks)) # {}

(* parallel_node_reconciler.go:157-174: the existing children and the children
   a pass creates, were every Delete to fail and every Create to succeed *)
Needed(kids, tasks) ==
    Cardinality(kids)
    + (IF Redefined(kids, tasks) THEN Len(tasks)
       ELSE Cardinality(relativeComplementSet(Range(tasks), PrefixNames(kids))))

(* parallel_node_reconciler.go:111: all the declared tasks are finished *)
AllFinished(kids, tasks) == Cardinality(FinishedChildren(kids)) = Len(tasks)

(* Mutant of IgnoreNotFound: every error of the first Get is returned *)
ReturnAnyError(err) == "err"

(* parallel_node_reconciler.go:65: client.IgnoreNotFound on the error of the
   first Get *)
IgnoreNotFound(err) == IF err = "notfound" THEN "nil" ELSE "err"

(* parallel_node_reconciler.go:84: the closure fetches the node again *)
ParRetryFetch(stored, outerNode) == stored

(* parallel_node_reconciler.go:94-123: the closure rewrites the status *)
ParMutate(obj, kids) ==
    [obj EXCEPT !.finished = {NameOf(k) : k \in FinishedChildren(kids)},
                !.active = {NameOf(k) : k \in ActiveChildren(kids)},
                !.accomplished = IF AllFinished(kids, obj.tasks) THEN "True" ELSE "False"]

FreshId == CHOOSE i \in KidIds : \A k \in children : k.id # i

InitParVars ==
    /\ node = NoNode
    /\ workflow = FALSE
    /\ children = {}
    /\ toCreate = <<>>
    /\ made = NoMade

InitPar ==
    /\ ctl = "par"
    /\ \E ty \in {TypeParallel, "Serial"}, ts \in TaskLists :
          /\ ty = "Serial" => Len(ts) = 1
          /\ node = [NoNode EXCEPT !.exists = TRUE, !.type = ty, !.tasks = ts]
    /\ workflow \in BOOLEAN
    /\ children = {}
    /\ toCreate = <<>>
    /\ made = NoMade

(* parallel_node_reconciler.go:62-79 and 136-198: Get the node, filter its
   type, and syncChildrenNodes up to the rendering of the children to create *)
ParFetch(lim) ==
    /\ UNCHANGED <<expVars, pauseVars, sideVars>>
    /\ ctl = "par" /\ pc = "idle"
    /\ UNCHANGED <<ctl, node, workflow, held, steps, updateError, wrote, tried,
                   attemptVer, index>>
    /\ \/ /\ ~node.exists                              \* not found
          /\ pc' = "done" /\ ret' = IgnoreNotFound("notfound")
          /\ UNCHANGED <<outer, children, toCreate, made, failed, budget>>
       \/ /\ node.exists /\ CanFail(lim)                \* another Get error
          /\ pc' = "done" /\ ret' = IgnoreNotFound("error") /\ failed' = TRUE
          /\ budget' = Spend(lim, TRUE)
          /\ UNCHANGED <<outer, children, toCreate, made>>
       \/ /\ node.exists /\ ~IsParallel(node)             \* not a parallel node
          /\ outer' = node
          /\ pc' = "done" /\ ret' = "nil"
          /\ UNCHANGED <<children, toCreate, made, failed, budget>>
       \/ /\ node.exists /\ IsParallel(node) /\ Len(node.tasks) = 0
          /\ outer' = node
          /\ pc' = "get" /\ ret' = "none"
          /\ UNCHANGED <<children, toCreate, made, failed, budget>>
       \/ /\ node.exists /\ IsParallel(node) /\ Len(node.tasks) > 0
          /\ CanFail(lim)                               \* fetchChildrenNodes fails
          /\ outer' = node
          /\ pc' = "done" /\ ret' = "err" /\ failed' = TRUE
          /\ budget' = Spend(lim, TRUE)
          /\ UNCHANGED <<children, toCreate, made>>
       \/ /\ node.exists /\ IsParallel(node) /\ Len(node.tasks) > 0
          /\ outer' = node
          /\ \E gone \in SUBSET children, wfErr \in BOOLEAN :
               LET redef == Redefined(children, node.tasks)
                   missing == relativeComplementSet(Range(node.tasks), PrefixNames(children))
                   bad == (redef /\ gone # children) \/ wfErr
               IN /\ ~redef => gone = {}
                  /\ bad => CanFail(lim)
                  /\ (redef /\ gone # children) =>
                        Needed(children, node.tasks) <= MaxKids
                  /\ budget' = Spend(lim, bad)
                  /\ children' = children \ gone
                  /\ \E start \in (IF redef THEN {node.tasks} ELSE Orders(missing)) :
                       /\ made' = [listed |-> TRUE, deleted |-> gone, created |-> {},
                                   redefined |-> redef, scheduled |-> start,
                                   createErr |-> FALSE]
                       /\ IF start = <<>>
                          THEN /\ ~wfErr
                               /\ toCreate' = <<>> /\ pc' = "get" /\ ret' = "none"
                               /\ failed' = bad
                          ELSE IF ~workflow \/ wfErr    \* Get workflow or render fails
                               THEN /\ toCreate' = <<>>
                                    /\ pc' = "done" /\ ret' = "err" /\ failed' = TRUE
                               ELSE /\ toCreate' = start
                                    /\ pc' = "create" /\ ret' = "none" /\ failed' = bad

(* Mutant of OnCreateError: the failed child is skipped and the batch goes on *)
OnCreateErrorSkip(queue) == [pc |-> "create", toCreate |-> Tail(queue), ret |-> "none"]

(* parallel_node_reconciler.go:204-209: a failed Create returns the error from
   syncChildrenNodes, and Reconcile returns it at l.77-79 *)
OnCreateError(queue) == [pc |-> "done", toCreate |-> queue, ret |-> "err"]

(* parallel_node_reconciler.go:202-216: create the rendered children in turn *)
ParCreate(lim) ==
    /\ UNCHANGED <<expVars, pauseVars, sideVars>>
    /\ ctl = "par" /\ pc = "create"
    /\ UNCHANGED <<ctl, node, workflow, outer, held, steps, updateError, wrote, tried,
                   attemptVer, index>>
    /\ IF toCreate = <<>>
       THEN /\ pc' = "get"
            /\ UNCHANGED <<children, toCreate, made, ret, failed, budget>>
       ELSE \/ /\ Cardinality(children) < MaxKids
               /\ LET kid == [task |-> Head(toCreate), id |-> FreshId, finished |-> FALSE]
                  IN /\ children' = children \cup {kid}
                     /\ made' = [made EXCEPT !.created = @ \cup {kid}]
               /\ toCreate' = Tail(toCreate)
               /\ UNCHANGED <<pc, ret, failed, budget>>
            \/ /\ CanFail(lim)                          \* Create fails
               /\ pc' = OnCreateError(toCreate).pc
               /\ toCreate' = OnCreateError(toCreate).toCreate
               /\ ret' = OnCreateError(toCreate).ret
               /\ failed' = TRUE
               /\ made' = [made EXCEPT !.createErr = TRUE]
               /\ budget' = Spend(lim, TRUE)
               /\ UNCHANGED children

(* parallel_node_reconciler.go:83-123: the Get of one retry attempt, the
   listing of the children and the mutation of the status *)
ParRetryGet(lim) ==
    /\ UNCHANGED <<expVars, pauseVars, sideVars>>
    /\ ctl = "par" /\ pc = "get"
    /\ UNCHANGED <<ctl, outer, index, steps, wrote, tried, parVars>>
    /\ \/ /\ node.exists
          /\ held' = ParMutate(ParRetryFetch(node, outer), children)
          /\ attemptVer' = node.ver
          /\ pc' = "update"
          /\ UNCHANGED <<ret, failed, updateError, budget>>
       \/ /\ ~node.exists \/ CanFail(lim)       \* not found, or a Get or listing error
          /\ updateError' = IF node.exists THEN "error" ELSE "notfound"
          /\ pc' = "done" /\ ret' = "err" /\ failed' = TRUE
          /\ budget' = Spend(lim, node.exists)
          /\ UNCHANGED <<held, attemptVer>>

(* parallel_node_reconciler.go:125-133: the status Update of one retry attempt,
   and what RetryOnConflict and the caller do with its result *)
ParRetryUpdate(lim) ==
    /\ UNCHANGED <<expVars, pauseVars, sideVars>>
    /\ ctl = "par" /\ pc = "update"
    /\ tried' = tried + 1
    /\ UNCHANGED <<ctl, outer, index, held, attemptVer, workflow, children, toCreate, made>>
    /\ \/ /\ node.exists /\ held.ver = node.ver          \* accepted
          /\ node' = [node EXCEPT !.finished = held.finished, !.active = held.active,
                                  !.accomplished = held.accomplished, !.ver = @ + 1]
          /\ wrote' = wrote + 1
          /\ pc' = "done" /\ ret' = "nil"
          /\ UNCHANGED <<steps, failed, updateError, budget>>
       \/ /\ node.exists /\ held.ver # node.ver          \* conflict
          /\ steps' = steps + 1
          /\ IF RetryLeft(steps + 1, DefaultRetrySteps)
             THEN pc' = "get" /\ UNCHANGED <<ret, failed, updateError>>
             ELSE /\ updateError' = "conflict"
                  /\ pc' = "done" /\ ret' = "err" /\ failed' = TRUE
          /\ UNCHANGED <<node, wrote, budget>>
       \/ /\ ~node.exists \/ CanFail(lim)                \* not found, or another error
          /\ updateError' = IF node.exists THEN "error" ELSE "notfound"
          /\ pc' = "done" /\ ret' = "err" /\ failed' = TRUE
          /\ budget' = Spend(lim, node.exists)
          /\ UNCHANGED <<node, steps, wrote>>

(* parallel_node_reconciler.go:65, 70, 78, 130 and 133: Reconcile returns *)
ParReturn ==
    /\ UNCHANGED <<expVars, pauseVars, sideVars>>
    /\ ctl = "par" /\ pc = "done"
    /\ pc' = "idle"
    /\ outer' = NoObj /\ index' = 1 /\ held' = NoObj /\ steps' = 0 /\ ret' = "none"
    /\ failed' = FALSE /\ updateError' = "nil" /\ wrote' = 0 /\ tried' = 0
    /\ attemptVer' = 0
    /\ toCreate' = <<>> /\ made' = NoMade
    /\ node' = Renumbered(node)
    /\ UNCHANGED <<ctl, workflow, children, budget>>

(* Another writer updates the node: between passes it may redefine the tasks,
   which makes a new generation of the node (at most MaxGen of them, and only
   to tasks whose children the MaxKids children leave room for); during a
   pass only a write that falls between the Get and the Update of an attempt is
   seen by the pass, as a conflict. *)
NodeExternalUpdate ==
    /\ UNCHANGED <<expVars, pauseVars, sideVars>>
    /\ ctl = "par" /\ node.exists
    /\ \/ pc = "idle" /\ node.gen < MaxGen
       \/ pc = "update" /\ held.ver = node.ver
    /\ \E ts \in TaskLists :
          /\ IF pc = "idle" THEN ts # node.tasks ELSE ts = node.tasks
          /\ pc = "idle" => Needed(children, ts) <= MaxKids
          /\ node' = [node EXCEPT !.tasks = ts, !.ver = NextVer(@),
                                  !.gen = IF pc = "idle" THEN @ + 1 ELSE @]
    /\ UNCHANGED <<ctl, pc, outer, index, held, steps, ret, failed, updateError, wrote,
                   tried, attemptVer, budget, workflow, children, toCreate, made>>

(* The node is deleted *)
NodeExternalDelete ==
    /\ UNCHANGED <<expVars, pauseVars, sideVars>>
    /\ ctl = "par" /\ node.exists
    /\ pc \in {"idle", "get", "update"}
    /\ node' = [node EXCEPT !.exists = FALSE]
    /\ UNCHANGED <<ctl, pc, outer, index, held, steps, ret, failed, updateError, wrote,
                   tried, attemptVer, budget, workflow, children, toCreate, made>>

(* A child node finishes.  A pass lists the children in syncChildrenNodes and in
   its retry attempts. *)
ChildFinish(k) ==
    /\ UNCHANGED <<expVars, pauseVars, sideVars>>
    /\ ctl = "par" /\ k \in children /\ ~k.finished
    /\ pc \in {"idle", "get"}
    /\ children' = (children \ {k}) \cup {[k EXCEPT !.finished = TRUE]}
    /\ UNCHANGED <<ctl, pc, outer, index, held, steps, ret, failed, updateError, wrote,
                   tried, attemptVer, budget, node, workflow, toCreate, made>>

----------------------------------------------------------------------------
(* The DNS fault of the chaos daemon, pkg/chaosdaemon/dns_server.go *)

DnsServers == {"", "10.0.0.1"}
NoFile == [exists |-> FALSE, lines |-> <<>>]
NoHist == [applies |-> 0, pristine |-> <<>>, once |-> <<>>, restored |-> FALSE,
           clean |-> FALSE]

(* The resolv.conf of a container before any fault *)
ConfFiles == {<<>>, <<"nameserver local">>}

(* dns_server.go:47: cp DNSServerConfFile DNSServerConfFile.chaos.bak *)
BackupConf(conf) == [exists |-> TRUE, lines |-> conf]

(* dns_server.go:60: echo 'nameserver <server>' | cat - conf > temp && cat temp > conf *)
PrependServer(server, conf) == <<"nameserver " \o server>> \o conf

(* dns_server.go:72: ls conf && cat conf.chaos.bak > conf || true; the shell
   truncates conf for the redirection before cat looks for the backup *)
RestoreConf(bak, conf) == IF bak.exists THEN bak.lines ELSE <<>>

InitDaemonVars ==
    /\ resolvConf = <<>>
    /\ resolvBak = NoFile
    /\ dnsRet = "none"
    /\ dnsHist = NoHist

InitDaemon ==
    /\ ctl = "dns"
    /\ resolvConf \in ConfFiles
    /\ resolvBak = NoFile
    /\ dnsRet = "none"
    /\ dnsHist = NoHist

(* dns_server.go:30-85: one SetDNSServer call.  dnsHist keeps, for the calls
   since the last recover, the number of successful enables, the file before
   the first of them and the file after it. *)
SetDNSServer(enable, server, lim) ==
    /\ ctl = "dns"
    /\ UNCHANGED <<ctl, passVars, expVars, pauseVars, parVars, httpVars, apiVars>>
    /\ \/ /\ CanFail(lim)                              \* GetPidFromContainerID fails
          /\ dnsRet' = "err"
          /\ dnsHist' = [dnsHist EXCEPT !.clean = FALSE, !.restored = FALSE]
          /\ budget' = Spend(lim, TRUE)
          /\ UNCHANGED <<resolvConf, resolvBak>>
       \/ /\ enable /\ Len(server) = 0                  \* invalid request
          /\ dnsRet' = "err"
          /\ dnsHist' = [dnsHist EXCEPT !.clean = FALSE, !.restored = FALSE]
          /\ UNCHANGED <<resolvConf, resolvBak, budget>>
       \/ /\ enable /\ Len(server) # 0 /\ CanFail(lim)  \* the backup command fails
          /\ dnsRet' = "err"
          /\ dnsHist' = [dnsHist EXCEPT !.clean = FALSE, !.restored = FALSE]
          /\ budget' = Spend(lim, TRUE)
          /\ UNCHANGED <<resolvConf, resolvBak>>
       \/ /\ enable /\ Len(server) # 0 /\ CanFail(lim)  \* the second command fails
          /\ resolvBak' = BackupConf(resolvConf)
          /\ dnsRet' = "err"
          /\ dnsHist' = [dnsHist EXCEPT !.clean = FALSE, !.restored = FALSE]
          /\ budget' = Spend(lim, TRUE)
          /\ UNCHANGED resolvConf
       \/ /\ enable /\ Len(server) # 0
          /\ Len(resolvConf) < MaxLines
          /\ resolvBak' = BackupConf(resolvConf)
          /\ resolvConf' = PrependServer(server, resolvConf)
          /\ dnsRet' = "nil"
          /\ dnsHist' = IF dnsHist.applies = 0
                        THEN [applies |-> 1, pristine |-> resolvConf,
                              once |-> PrependServer(server, resolvConf),
                              restored |-> FALSE, clean |-> TRUE]
                        ELSE [dnsHist EXCEPT !.applies = @ + 1, !.clean = TRUE,
                                             !.restored = FALSE]
          /\ UNCHANGED budget
       \/ /\ ~enable /\ CanFail(lim)                    \* the restore command fails
          /\ dnsRet' = "err"
          /\ dnsHist' = [dnsHist EXCEPT !.clean = FALSE, !.restored = FALSE]
          /\ budget' = Spend(lim, TRUE)
          /\ UNCHANGED <<resolvConf, resolvBak>>
       \/ /\ ~enable
          /\ resolvConf' = RestoreConf(resolvBak, resolvConf)
          /\ dnsRet' = "nil"
          /\ dnsHist' = [dnsHist EXCEPT !.applies = 0, !.clean = TRUE,
                                        !.restored = (dnsHist.applies > 0)]
          /\ UNCHANGED <<resolvBak, budget>>

----------------------------------------------------------------------------
(* The HTTP chaos reconciler, package httpchaos in
   controllers/schedule/pause/controller.go:106-298.  A duration is kept as the
   sequence of the characters of its string. *)

DurChars == {"0", "1", "s", "m", "x", "-"}
Digits == {"0", "1"}
NoDuration == [present |-> FALSE, str |-> <<>>]
Durations ==
    {NoDuration} \cup {[present |-> TRUE, str |-> str] :
                           str \in UNION {[1..n -> DurChars] : n \in 0..MaxDurLen}}

ParseFail == [ok |-> FALSE, value |-> 0]

(* time.ParseDuration, leadingInt: the leading decimal digits and their value *)
RECURSIVE LeadingDigits(_)
LeadingDigits(str) ==
    IF str = <<>> \/ Head(str) \notin Digits THEN 0 ELSE 1 + LeadingDigits(Tail(str))

RECURSIVE leadingInt(_, _)
leadingInt(str, n) ==
    IF n = 0 THEN 0 ELSE leadingInt(str, n - 1) * 10 + (IF str[n] = "1" THEN 1 ELSE 0)

(* time.ParseDuration: the unit is what comes before the next digit *)
RECURSIVE UnitLength(_)
UnitLength(str) ==
    IF str = <<>> \/ Head(str) \in Digits THEN 0 ELSE 1 + UnitLength(Tail(str))

(* time.unitMap, in milliseconds, for the units the characters can spell *)
unitMap(u) ==
    CASE u = <<"m", "s">> -> [ok |-> TRUE, value |-> 1]
      [] u = <<"s">> -> [ok |-> TRUE, value |-> 1000]
      [] u = <<"m">> -> [ok |-> TRUE, value |-> 60000]
      [] OTHER -> ParseFail

(* time.ParseDuration: the sequence of numbers with a unit each *)
RECURSIVE ParseGroups(_)
ParseGroups(str) ==
    IF str = <<>> THEN [ok |-> TRUE, value |-> 0]
    ELSE LET n == LeadingDigits(str)
             rest == SubSeq(str, n + 1, Len(str))
             u == UnitLength(rest)
             unit == unitMap(SubSeq(rest, 1, u))
             more == ParseGroups(SubSeq(rest, u + 1, Len(rest)))
         IN IF n = 0 \/ u = 0 \/ ~unit.ok \/ ~more.ok THEN ParseFail
            ELSE [ok |-> TRUE, value |-> leadingInt(str, n) * unit.value + more.value]

(* time.ParseDuration: an optional sign, then "0" or numbers with units *)
ParseDuration(str) ==
    LET signed == str # <<>> /\ Head(str) = "-"
        body == IF signed THEN Tail(str) ELSE str
        groups == ParseGroups(body)
    IN IF body = <<"0">> THEN [ok |-> TRUE, value |-> 0]
       ELSE IF body = <<>> \/ ~groups.ok THEN ParseFail
       ELSE [ok |-> TRUE, value |-> IF signed THEN 0 - groups.value ELSE groups.value]

(* Mutant of GetDuration: a string that does not parse counts as no time *)
GetDurationLenient(d) ==
    IF ~d.present THEN [err |-> FALSE, isNil |-> TRUE, value |-> 0]
    ELSE [err |-> FALSE, isNil |-> FALSE, value |-> ParseDuration(d.str).value]

(* part_008:526-536: HTTPChaosSpec.GetDuration *)
GetDuration(d) ==
    IF ~d.present THEN [err |-> FALSE, isNil |-> TRUE, value |-> 0]
    ELSE IF ~ParseDuration(d.str).ok THEN [err |-> TRUE, isNil |-> TRUE, value |-> 0]
    ELSE [err |-> FALSE, isNil |-> FALSE, value |-> ParseDuration(d.str).value]

HTTPAbortAction == "abort"
HTTPMixedAction == "mixed"
HttpActions == {HTTPAbortAction, HTTPMixedAction, "delay"}

PodLists ==
    UNION {[1..n -> [ports : {<<>>, <<"80">>, <<"80", "8080">>}]] : n \in 0..MaxPods}

NoGroup == [run |-> <<>>, err |-> "nil", returned |-> "none"]

inputFilterName == "HTTP-CHAOS-INPUT"
outputFilterName == "HTTP-CHAOS-OUTPUT"

(* strings.Join(ports, ",") *)
RECURSIVE Join(_)
Join(ports) ==
    IF ports = <<>> THEN ""
    ELSE IF Len(ports) = 1 THEN ports[1]
    ELSE ports[1] \o "," \o Join(Tail(ports))

Chain(command, name, dport, sport, action, probability) ==
    [command |-> command, chain |-> name, dport |-> dport, sport |-> sport,
     action |-> action, probability |-> probability]

(* Mutant of SetIptables: the routing operations come before the new chains *)
SetIptablesRoutingFirst(pod, obj) ==
    << Chain("ADD", "INPUT", Join(pod.ports), "", inputFilterName, ""),
       Chain("ADD", "OUPUT", "", Join(pod.ports), outputFilterName, ""),
       Chain("NEW", inputFilterName, "", "", "", ""),
       Chain("NEW", outputFilterName, "", "", "", "") >>

(* controller.go:244-297: the chain operations SetIptables builds for a pod *)
SetIptables(pod, obj) ==
    << Chain("NEW", inputFilterName, "", "", "", ""),
       Chain("NEW", outputFilterName, "", "", "", ""),
       Chain("ADD", "INPUT", Join(pod.ports), "", inputFilterName, ""),
       Chain("ADD", "OUPUT", "", Join(pod.ports), outputFilterName, "") >>
    \o (IF obj.action = HTTPAbortAction \/ obj.action = HTTPMixedAction
        THEN << Chain("ADD", inputFilterName, "", "", "DROP", obj.percent),
                Chain("ADD", outputFilterName, "", "", "DROP", obj.percent) >>
        ELSE <<>>)

(* controller.go:213-216: cache.MetaNamespaceKeyFunc returns an error only for
   an object without ObjectMeta, which a Pod never is *)
KeyFuncFails(pod) == FALSE

(* Mutant of AllDone: Wait does not wait *)
AllDoneNoWait(run) == TRUE

(* controller.go:234: g.Wait blocks until every goroutine of the group returned *)
AllDone(run) == \A i \in DOMAIN run : run[i] # "running"

InitHttpVars ==
    /\ httpChaos = [duration |-> NoDuration, action |-> "", percent |-> "",
                    finalizers |-> {}]
    /\ pods = <<>>
    /\ group = NoGroup
    /\ sent = <<>>

(* Either any duration and no target pod, or a duration that parses and any
   list of target pods *)
InitHttp ==
    /\ ctl = "http"
    /\ \E d \in Durations, a \in HttpActions, ps \in PodLists :
          /\ \/ ps = <<>> /\ a = HTTPAbortAction
             \/ d = [present |-> TRUE, str |-> <<"1", "s">>]
          /\ httpChaos = [duration |-> d, action |-> a, percent |-> "50",
                          finalizers |-> {}]
          /\ pods = ps
    /\ group = NoGroup
    /\ sent = <<>>

(* controller.go:186-202: Reconcile of the HTTP chaos reconciler *)
HttpReconcile ==
    /\ ctl = "http" /\ pc = "idle"
    /\ LET duration == GetDuration(httpChaos.duration)
       IN IF duration.err \/ duration.isNil
          THEN pc' = "done" /\ ret' = "err"
          ELSE pc' = "common" /\ ret' = "none"
    /\ UNCHANGED <<ctl, outer, index, held, steps, failed, updateError, wrote, tried,
                   attemptVer, budget, expVars, pauseVars, parVars, daemonVars,
                   apiVars, httpVars>>

(* controller.go:204-207 and 143-160: the common reconciler runs; when it calls
   Apply the pods are selected and applyAllPods starts *)
HttpCommon(lim) ==
    /\ ctl = "http" /\ pc = "common"
    /\ \/ /\ pc' = "done" /\ ret' = "nil"             \* Apply is not called
          /\ UNCHANGED <<index, group, sent, failed, budget>>
       \/ /\ CanFail(lim)                             \* SelectAndFilterPods fails
          /\ pc' = "applied" /\ failed' = TRUE
          /\ budget' = Spend(lim, TRUE)
          /\ UNCHANGED <<index, group, sent, ret>>
       \/ /\ pc' = "loop" /\ index' = 1
          /\ group' = [NoGroup EXCEPT !.run = [i \in 1..Len(pods) |-> "none"]]
          /\ sent' = [i \in 1..Len(pods) |-> <<>>]
          /\ UNCHANGED <<ret, failed, budget>>
    /\ UNCHANGED <<ctl, outer, held, steps, updateError, wrote, tried, attemptVer,
                   expVars, pauseVars, parVars, daemonVars, apiVars, httpChaos, pods>>

(* controller.go:209-232: the loop of applyAllPods starts one goroutine per pod *)
HttpLoop ==
    /\ ctl = "http" /\ pc = "loop"
    /\ IF index > Len(pods)
       THEN /\ pc' = "wait"
            /\ UNCHANGED <<index, httpChaos, group>>
       ELSE IF KeyFuncFails(pods[index])
       THEN /\ pc' = "applied"
            /\ group' = [group EXCEPT !.returned = "err"]
            /\ UNCHANGED <<index, httpChaos>>
       ELSE /\ httpChaos' = [httpChaos EXCEPT !.finalizers = @ \cup {index}]
            /\ group' = [group EXCEPT !.run[index] = "running"]
            /\ index' = index + 1
            /\ UNCHANGED pc
    /\ UNCHANGED <<ctl, outer, held, steps, ret, failed, updateError, wrote, tried,
                   attemptVer, budget, expVars, pauseVars, parVars, daemonVars, apiVars, pods,
                   sent>>

(* controller.go:229-231 and 237-298: the goroutine of one pod runs applyPod *)
HttpPodApply(i, lim) ==
    /\ ctl = "http" /\ i \in DOMAIN group.run /\ group.run[i] = "running"
    /\ sent' = [sent EXCEPT ![i] = SetIptables(pods[i], httpChaos)]
    /\ \/ /\ group' = [group EXCEPT !.run[i] = "ok"]
          /\ UNCHANGED budget
       \/ /\ CanFail(lim)                             \* SetIptablesChains fails
          /\ group' = [group EXCEPT !.run[i] = "failed", !.err = "err"]
          /\ budget' = Spend(lim, TRUE)
    /\ UNCHANGED <<ctl, passVars, expVars, pauseVars, parVars, daemonVars, apiVars, httpChaos,
                   pods>>

(* controller.go:234: applyAllPods returns what g.Wait returns *)
HttpWait ==
    /\ ctl = "http" /\ pc = "wait"
    /\ AllDone(group.run)
    /\ group' = [group EXCEPT !.returned = group.err]
    /\ pc' = "applied"
    /\ UNCHANGED <<ctl, outer, index, held, steps, ret, failed, updateError, wrote,
                   tried, attemptVer, budget, expVars, pauseVars, parVars, daemonVars, apiVars,
                   httpChaos, pods, sent>>

----------------------------------------------------------------------------
(* BandwidthSpec.ToTbf, unnamed/part_007:397-430.  A rate is kept as the
   sequence of the characters of its string, and an unsigned 64-bit integer as
   its seven digits in base 1024, lowest first, the seventh holding the four
   highest bits. *)

Limb == 1024
WordLimbs == 7
TopLimb == 16

DigitChars == {"0", "1", "2", "3", "4", "5", "6", "7", "8", "9"}
DigitValue(c) ==
    CASE c = "0" -> 0 [] c = "1" -> 1 [] c = "2" -> 2 [] c = "3" -> 3 [] c = "4" -> 4
      [] c = "5" -> 5 [] c = "6" -> 6 [] c = "7" -> 7 [] c = "8" -> 8 [] c = "9" -> 9

(* strings.ToLower on the letters the rates are written with *)
ToLower(str) ==
    LET lower(c) ==
            CASE c = "B" -> "b" [] c = "K" -> "k" [] c = "M" -> "m" [] c = "G" -> "g"
              [] c = "T" -> "t" [] c = "P" -> "p" [] c = "S" -> "s" [] OTHER -> c
    IN [i \in 1..Len(str) |-> lower(str[i])]

(* strings.TrimSpace, strings.HasSuffix, strings.TrimSuffix *)
TrimSpace(str) ==
    LET inked == {i \in 1..Len(str) : str[i] # " "}
    IN IF inked = {} THEN <<>>
       ELSE SubSeq(str, CHOOSE i \in inked : \A j \in inked : i <= j,
                        CHOOSE i \in inked : \A j \in inked : i >= j)
HasSuffix(str, suffix) ==
    /\ Len(str) >= Len(suffix)
    /\ SubSeq(str, Len(str) - Len(suffix) + 1, Len(str)) = suffix
TrimSuffix(str, suffix) ==
    IF HasSuffix(str, suffix) THEN SubSeq(str, 1, Len(str) - Len(suffix)) ELSE str

(* strconv.ParseUint(s, 10, 64): decimal digits only, no sign, not empty.  The
   rates of the model stay below 2^31, so the range error does not arise. *)
RECURSIVE DecimalValue(_)
DecimalValue(str) ==
    IF str = <<>> THEN 0
    ELSE DecimalValue(SubSeq(str, 1, Len(str) - 1)) * 10 + DigitValue(str[Len(str)])
ParseUint(str) ==
    IF str = <<>> \/ \E i \in 1..Len(str) : str[i] \notin DigitChars
    THEN [err |-> "invalid syntax", n |-> 0]
    ELSE [err |-> "nil", n |-> DecimalValue(str)]

(* a parsed number as an unsigned 64-bit integer *)
Uint64(n) ==
    [i \in 1..WordLimbs |->
        IF i = 1 THEN n % Limb
        ELSE IF i = 2 THEN (n \div Limb) % Limb
        ELSE IF i = 3 THEN (n \div (Limb * Limb)) % Limb
        ELSE IF i = 4 THEN n \div (Limb * Limb * Limb)
        ELSE 0]

(* part_007:411 with the factor left out: the rate is left as parsed *)
Times1024Not(rate) == rate

(* part_007:411: rate = rate * 1024 in uint64, which wraps *)
Times1024(rate) ==
    [i \in 1..WordLimbs |->
        IF i = 1 THEN 0
        ELSE IF i = WordLimbs THEN rate[i - 1] % TopLimb
        ELSE rate[i - 1]]

(* part_007:410-412: the loop "for i := 4 - i; i > 0; i--" *)
RECURSIVE ToBytes(_, _)
ToBytes(rate, times) ==
    IF times = 0 THEN rate ELSE ToBytes(Times1024(rate), times - 1)

RateUnits == << <<"t", "b", "p", "s">>, <<"g", "b", "p", "s">>, <<"m", "b", "p", "s">>,
                <<"k", "b", "p", "s">>, <<"b", "p", "s">> >>

NoTbf == [rate |-> Uint64(0), limit |-> 0, buffer |-> 0, peakRate |-> 0, minBurst |-> 0]
NoValue == [present |-> FALSE, value |-> 0]
ErrInvalidRateUnit == "invalid rate unit"

(* part_007:397-430: ToTbf.  The units are tried in the order of the list; the
   suffix is looked for in the lowered and trimmed rate and cut from the rate
   as given. *)
ToTbf(spec) ==
    LET s == ToLower(TrimSpace(spec.rate))
        hits == {i \in 1..Len(RateUnits) : HasSuffix(s, RateUnits[i])}
    IN IF hits = {} THEN [err |-> ErrInvalidRateUnit, tbf |-> NoTbf]
       ELSE LET i == CHOOSE h \in hits : \A g \in hits : h <= g
                parsed == ParseUint(TrimSpace(TrimSuffix(spec.rate, RateUnits[i])))
                both == spec.peakrate.present /\ spec.minburst.present
            IN IF parsed.err # "nil" THEN [err |-> parsed.err, tbf |-> NoTbf]
               ELSE [err |-> "nil",
                     tbf |-> [rate |-> ToBytes(Uint64(parsed.n), Len(RateUnits) - i),
                              limit |-> spec.limit, buffer |-> spec.buffer,
                              peakRate |-> IF both THEN spec.peakrate.value ELSE 0,
                              minBurst |-> IF both THEN spec.minburst.value ELSE 0]]

(* The rates of the model: blanks, a number, a separator, a unit, blanks.  The
   numbers have at most MaxDigits digits, but for 2^24, which times 1024^4 does
   not fit in 64 bits. *)
Rates ==
    LET blanks == {<<>>, <<" ">>}
        numbers == UNION {[1..n -> {"0", "1", "2"}] : n \in 0..MaxDigits}
                       \cup {<<"1", "6", "7", "7", "7", "2", "1", "6">>}
        gaps == {<<>>, <<" ">>, <<"x">>}
        words == {RateUnits[i] : i \in 1..Len(RateUnits)}
                     \cup {<<"M", "b", "p", "s">>, <<"b", "p">>, <<>>}
    IN {a \o n \o g \o u \o b :
           a \in blanks, n \in numbers, g \in gaps, u \in words, b \in blanks}
NoBandwidth == [rate |-> <<>>, limit |-> 0, buffer |-> 0, peakrate |-> NoValue,
                minburst |-> NoValue]
NoResult == [err |-> "none", tbf |-> NoTbf]

InitTbfVars ==
    /\ bandwidth = NoBandwidth
    /\ tbf = NoResult

(* Either any rate with one limit and buffer, or one rate with any of the
   other fields *)
InitTbf ==
    /\ ctl = "tbf"
    /\ \E r \in Rates, l \in {0, 1}, b \in {0, 1},
          p \in {NoValue, [present |-> TRUE, value |-> 1]},
          m \in {NoValue, [present |-> TRUE, value |-> 1]} :
          /\ \/ l = 1 /\ b = 0 /\ p = NoValue /\ m = NoValue
             \/ r = <<"1", "m", "b", "p", "s">>
          /\ bandwidth = [rate |-> r, limit |-> l, buffer |-> b, peakrate |-> p,
                          minburst |-> m]
    /\ tbf = NoResult

(* a call of ToTbf on the bandwidth of the experiment *)
CallToTbf ==
    /\ ctl = "tbf" /\ tbf = NoResult
    /\ tbf' = ToTbf(bandwidth)
    /\ UNCHANGED <<ctl, passVars, budget, expVars, pauseVars, parVars, daemonVars,
                   httpVars, bandwidth, webhookVars, libVars>>

----------------------------------------------------------------------------
(* The experiment types of api/v1alpha1: the NextStart and NextRecover fields
   (stresschaos_types.go:112-152, unnamed/part_007:217-253) and the validating
   webhook (unnamed/part_008).  A time.Time is kept as its instant and its
   location, the nil location standing for UTC. *)

Times == [instant : 0..MaxInstant, loc : {"UTC", "Local"}]
ZeroTime == [instant |-> 0, loc |-> "UTC"]
IsZero(t) == t.instant = 0

NilTime == [present |-> FALSE, time |-> ZeroTime]
ErrCanNotUpdateChaos == "Cannot update chaos spec"

(* stresschaos_types.go:113-118, part_007:217-222 *)
GetNextStart(in) ==
    IF ~in.spec.nextStart.present THEN ZeroTime ELSE in.spec.nextStart.time

(* SetNextStart without the case of the zero time *)
SetNextStartAlways(in, t) ==
    [in EXCEPT !.spec.nextStart = [present |-> TRUE, time |-> t]]

(* stresschaos_types.go:121-131, part_007:224-234 *)
SetNextStart(in, t) ==
    IF IsZero(t) THEN [in EXCEPT !.spec.nextStart = NilTime]
    ELSE [in EXCEPT !.spec.nextStart = [present |-> TRUE, time |-> t]]

(* stresschaos_types.go:134-139, part_007:236-241 *)
GetNextRecover(in) ==
    IF ~in.spec.nextRecover.present THEN ZeroTime ELSE in.spec.nextRecover.time

(* stresschaos_types.go:142-152, part_007:243-253 *)
SetNextRecover(in, t) ==
    IF IsZero(t) THEN [in EXCEPT !.spec.nextRecover = NilTime]
    ELSE [in EXCEPT !.spec.nextRecover = [present |-> TRUE, time |-> t]]

(* reflect.DeepEqual on two specs: field by field, a pointer by what it points
   to, a time by its instant and its location *)
DeepEqual(a, b) ==
    /\ a.action = b.action
    /\ a.nextStart.present = b.nextStart.present
    /\ a.nextStart.present => a.nextStart.time = b.nextStart.time
    /\ a.nextRecover.present = b.nextRecover.present
    /\ a.nextRecover.present => a.nextRecover.time = b.nextRecover.time

(* ValidateUpdate without the comparison of the specs *)
ValidateUpdateNoCompare(in, old, valid) ==
    IF valid THEN "nil" ELSE "invalid"

(* part_008:163-169, 1252-1258, 1566-1572: ValidateUpdate; valid is what
   in.Validate() finds *)
ValidateUpdate(in, old, valid) ==
    IF ~DeepEqual(in.spec, old.spec) THEN ErrCanNotUpdateChaos
    ELSE IF valid THEN "nil" ELSE "invalid"

ChaosActions == {"delay", "loss"}
NoObject == [kind |-> "", spec |-> [action |-> "", nextStart |-> NilTime,
                                     nextRecover |-> NilTime],
             phase |-> ""]

InitWebhookVars ==
    /\ experiment = NoObject
    /\ edited = NoObject
    /\ verdict = "none"
    /\ created = NoObject.spec

(* An experiment of some kind was created, and a client holds a copy of it *)
InitWebhook ==
    /\ ctl = "api"
    /\ \E k \in {"NetworkChaos", "StressChaos"}, a \in ChaosActions,
          s \in {NilTime, [present |-> TRUE, time |-> [instant |-> 1, loc |-> "UTC"]]} :
          experiment = [kind |-> k, spec |-> [action |-> a, nextStart |-> s,
                                          nextRecover |-> NilTime],
                    phase |-> ""]
    /\ edited = experiment
    /\ verdict = "none"
    /\ created = experiment.spec

(* a client sets a field of its copy *)
ClientSetNextStart(t) ==
    /\ ctl = "api"
    /\ edited' = SetNextStart(edited, t)
    /\ UNCHANGED <<ctl, passVars, budget, expVars, pauseVars, parVars, daemonVars,
                   httpVars, tbfVars, libVars, experiment, verdict, created>>

ClientSetNextRecover(t) ==
    /\ ctl = "api"
    /\ edited' = SetNextRecover(edited, t)
    /\ UNCHANGED <<ctl, passVars, budget, expVars, pauseVars, parVars, daemonVars,
                   httpVars, tbfVars, libVars, experiment, verdict, created>>

ClientEdit(a, p) ==
    /\ ctl = "api"
    /\ edited' = [edited EXCEPT !.spec.action = a, !.phase = p]
    /\ UNCHANGED <<ctl, passVars, budget, expVars, pauseVars, parVars, daemonVars,
                   httpVars, tbfVars, libVars, experiment, verdict, created>>

(* the client sends its copy as an update; the API server asks the webhook,
   and stores the copy when the webhook admits it *)
ClientUpdate(valid) ==
    /\ ctl = "api"
    /\ verdict' = ValidateUpdate(edited, experiment, valid)
    /\ experiment' = IF verdict' = "nil" THEN edited ELSE experiment
    /\ UNCHANGED <<ctl, passVars, budget, expVars, pauseVars, parVars, daemonVars,
                   httpVars, tbfVars, libVars, edited, created>>

(* the client fetches the experiment object again *)
ClientGet ==
    /\ ctl = "api"
    /\ edited' = experiment
    /\ verdict' = "none"
    /\ UNCHANGED <<ctl, passVars, budget, expVars, pauseVars, parVars, daemonVars,
                   httpVars, tbfVars, libVars, experiment, created>>

----------------------------------------------------------------------------
(* Calls of getTaskNameFromGeneratedName, parallel_node_reconciler.go:219-225 *)

(* The task names and the generated suffixes of the calls.  A task name may hold
   the separator; a suffix is generated from letters and digits. *)
TaskNameStrings == UNION {[1..n -> {"a", "b", "-"}] : n \in 1..MaxNameLen}
Suffixes == UNION {[1..n -> {"x", "1"}] : n \in 1..2}
PlainNames == UNION {[1..n -> {"a", "1"}] : n \in 0..MaxNameLen}
NoName == <<"?">>

InitNameVars ==
    /\ generated = NoName
    /\ taskName = NoName

InitName ==
    /\ ctl = "name"
    /\ generated \in {t \o <<"-">> \o s : t \in TaskNameStrings, s \in Suffixes}
                      \cup PlainNames
    /\ taskName = NoName

(* a call of getTaskNameFromGeneratedName on the name *)
CallGetTaskName ==
    /\ ctl = "name" /\ taskName = NoName
    /\ taskName' = getTaskNameFromGeneratedName(generated)
    /\ UNCHANGED <<ctl, passVars, budget, expVars, pauseVars, parVars, daemonVars,
                   httpVars, tbfVars, webhookVars, generated, coreVars>>

----------------------------------------------------------------------------
(* The read paths of the workflow repository, pkg/core/workflow.go *)

TypeSerial == "Serial"
NodeRunning == "Running"
NodeSucceed == "Succeed"

(* A pointer to a NodeSerial or a NodeParallel: nil, or the struct with its
   task list *)
NilPointer == [isNil |-> TRUE, tasks |-> <<>>]
PointerTo(tasks) == [isNil |-> FALSE, tasks |-> tasks]

NoNodes == [panic |-> FALSE, nodes |-> <<>>]
NoDetail == [path |-> "none", outcome |-> "none", nodes |-> <<>>]

(* workflow.go:296-327: convertWorkflowNode.  The pointer of the node's type is
   set to a new struct with the declared tasks; finished is what
   WorkflowNodeFinished answers on the status of the node. *)
convertWorkflowNode(kubeWorkflowNode) ==
    [panic |-> FALSE,
     entry |-> [name |-> kubeWorkflowNode.name,
                serial |-> IF kubeWorkflowNode.type = TypeSerial
                           THEN PointerTo(kubeWorkflowNode.tasks) ELSE NilPointer,
                parallel |-> IF kubeWorkflowNode.type = TypeSerial THEN NilPointer
                             ELSE IF kubeWorkflowNode.type = TypeParallel
                                  THEN PointerTo(kubeWorkflowNode.tasks) ELSE NilPointer,
                template |-> kubeWorkflowNode.template,
                state |-> IF kubeWorkflowNode.finished THEN NodeSucceed ELSE NodeRunning]]

(* workflow.go:494-522: conversionWorkflowNode.  Serial and Parallel are left
   nil in the literal of l.499-505, and l.508 and l.510 assign to the Tasks
   field through them: the goroutine panics on the nil pointer.  finished is
   what the two ConditionEqualsTo calls of l.514-515 answer. *)
conversionWorkflowNode(kubeWorkflowNode) ==
    IF kubeWorkflowNode.type \in {TypeSerial, TypeParallel}
    THEN [panic |-> TRUE, entry |-> <<>>]
    ELSE [panic |-> FALSE,
          entry |-> [name |-> kubeWorkflowNode.name, serial |-> NilPointer,
                     parallel |-> NilPointer, template |-> kubeWorkflowNode.template,
                     state |-> IF kubeWorkflowNode.finished
                               THEN NodeSucceed ELSE NodeRunning]]

(* workflow.go:264-274: the loop of convertWorkflowDetail over the nodes *)
RECURSIVE convertWorkflowDetail(_)
convertWorkflowDetail(list) ==
    IF list = <<>> THEN NoNodes
    ELSE LET rest == convertWorkflowDetail(SubSeq(list, 1, Len(list) - 1))
             last == convertWorkflowNode(list[Len(list)])
         IN IF rest.panic \/ last.panic THEN [panic |-> TRUE, nodes |-> <<>>]
            ELSE [panic |-> FALSE, nodes |-> Append(rest.nodes, last.entry)]

(* workflow.go:474-483: the loop of conversionWorkflowDetail over the nodes *)
RECURSIVE conversionWorkflowDetail(_)
conversionWorkflowDetail(list) ==
    IF list = <<>> THEN NoNodes
    ELSE LET rest == conversionWorkflowDetail(SubSeq(list, 1, Len(list) - 1))
             last == conversionWorkflowNode(list[Len(list)])
         IN IF rest.panic \/ last.panic THEN [panic |-> TRUE, nodes |-> <<>>]
            ELSE [panic |-> FALSE, nodes |-> Append(rest.nodes, last.entry)]

(* What a read path returns for the converted nodes *)
Returned(path, converted) ==
    [path |-> path, outcome |-> IF converted.panic THEN "panic" ELSE "nil",
     nodes |-> converted.nodes]

(* The nodes a workflow may have: a type, the declared tasks, the template and
   whether the status says the node is over; the name of a node is its place *)
KubeNodeLists ==
    LET shapes == [type : {TypeSerial, TypeParallel, "Task"},
                   tasks : {<<>>, <<"a">>, <<"a", "b">>},
                   template : {"t"}, finished : BOOLEAN]
    IN UNION {{[i \in 1..n |-> [name |-> i, type |-> f[i].type, tasks |-> f[i].tasks,
                                template |-> f[i].template,
                                finished |-> f[i].finished]] :
                 f \in [1..n -> shapes]} : n \in 0..MaxNodes}

InitCoreVars ==
    /\ kubeNodes = <<>>
    /\ detail = NoDetail

InitCore ==
    /\ ctl = "core"
    /\ kubeNodes \in KubeNodeLists
    /\ detail = NoDetail

(* workflow.go:189-220: KubeWorkflowRepository.Get.  The Get of the workflow or
   the List of its nodes fails, or the nodes are converted. *)
Get ==
    /\ ctl = "core" /\ detail = NoDetail
    /\ \/ detail' = [path |-> "Get", outcome |-> "err", nodes |-> <<>>]
       \/ detail' = Returned("Get", convertWorkflowDetail(kubeNodes))
    /\ UNCHANGED <<ctl, passVars, budget, expVars, pauseVars, parVars, daemonVars,
                   httpVars, tbfVars, webhookVars, nameVars, kubeNodes>>

(* workflow.go:420-451: KubeWorkflowRepository.GetWorkflowByNamespacedName *)
GetWorkflowByNamespacedName ==
    /\ ctl = "core" /\ detail = NoDetail
    /\ \/ detail' = [path |-> "GetWorkflowByNamespacedName", outcome |-> "err",
                      nodes |-> <<>>]
       \/ detail' = Returned("GetWorkflowByNamespacedName",
                             conversionWorkflowDetail(kubeNodes))
    /\ UNCHANGED <<ctl, passVars, budget, expVars, pauseVars, parVars, daemonVars,
                   httpVars, tbfVars, webhookVars, nameVars, kubeNodes>>

CoreNext == Get \/ GetWorkflowByNamespacedName

InitLibVars == InitNameVars /\ InitCoreVars

InitSideVars ==
    InitDaemonVars /\ InitHttpVars /\ InitTbfVars /\ InitWebhookVars /\ InitLibVars

----------------------------------------------------------------------------
Init ==
    /\ budget = 0
    /\ InitPass
    /\ \/ InitExp /\ InitPauseVars /\ InitParVars /\ InitSideVars
       \/ InitExpVars /\ InitPause /\ InitParVars /\ InitSideVars
       \/ InitExpVars /\ InitPauseVars /\ InitPar /\ InitSideVars
       \/ InitExpVars /\ InitPauseVars /\ InitParVars /\ InitDaemon /\ InitHttpVars
          /\ InitTbfVars /\ InitWebhookVars /\ InitLibVars
       \/ InitExpVars /\ InitPauseVars /\ InitParVars /\ InitDaemonVars /\ InitHttp
          /\ InitTbfVars /\ InitWebhookVars /\ InitLibVars
       \/ InitExpVars /\ InitPauseVars /\ InitParVars /\ InitDaemonVars /\ InitHttpVars
          /\ \/ InitTbf /\ InitWebhookVars /\ InitLibVars
             \/ InitTbfVars /\ InitWebhook /\ InitLibVars
             \/ InitTbfVars /\ InitWebhookVars /\ InitName /\ InitCoreVars
             \/ InitTbfVars /\ InitWebhookVars /\ InitNameVars /\ InitCore

ExpNext ==
    \/ ExpFetch(FALSE)
    \/ ExpIterate(FALSE)
    \/ ExpLoopEnd
    \/ ExpRetryGet(FALSE)
    \/ ExpRetryUpdate(FALSE)
    \/ ExpReturn
    \/ ExpExternalUpdate
    \/ ExpExternalDelete

PauseNext ==
    \/ PauseFetch(FALSE)
    \/ PauseLoop
    \/ PauseRetryGet(FALSE)
    \/ PauseRetryUpdate(FALSE)
    \/ PauseReturn
    \/ ScheduleToggle
    \/ ScheduleDelete
    \/ \E j \in JobIds : JobExternalUpdate(j)
    \/ \E j \in JobIds : JobExternalDelete(j)

ParNext ==
    \/ ParFetch(FALSE)
    \/ ParCreate(FALSE)
    \/ ParRetryGet(FALSE)
    \/ ParRetryUpdate(FALSE)
    \/ ParReturn
    \/ NodeExternalUpdate
    \/ NodeExternalDelete
    \/ \E k \in children : ChildFinish(k)

DaemonNext ==
    \E enable \in BOOLEAN, server \in DnsServers : SetDNSServer(enable, server, FALSE)

WebhookNext ==
    \/ \E t \in Times : ClientSetNextStart(t)
    \/ \E t \in Times : ClientSetNextRecover(t)
    \/ \E a \in ChaosActions, p \in {"", "Running"} : ClientEdit(a, p)
    \/ \E valid \in BOOLEAN : ClientUpdate(valid)
    \/ ClientGet

HttpNext ==
    \/ HttpReconcile
    \/ HttpCommon(FALSE)
    \/ HttpLoop
    \/ \E i \in 1..MaxPods : HttpPodApply(i, FALSE)
    \/ HttpWait

Next ==
    \/ ExpNext \/ PauseNext \/ ParNext \/ DaemonNext \/ HttpNext \/ CallToTbf
    \/ WebhookNext \/ CallGetTaskName \/ CoreNext

Spec == Init /\ [][Next]_vars

(* One reconciler at a time *)
ExpInit == Init /\ ctl = "exp"
PauseInit == Init /\ ctl = "pause"
ParInit == Init /\ ctl = "par"
HttpInit == Init /\ ctl = "http"
ExpSpec == ExpInit /\ [][ExpNext]_vars
PauseSpec == PauseInit /\ [][PauseNext]_vars
ParSpec == ParInit /\ [][ParNext]_vars
HttpSpec == HttpInit /\ [][HttpNext]_vars
TbfInit == Init /\ ctl = "tbf"
TbfSpec == TbfInit /\ [][CallToTbf]_vars
WebhookInit == Init /\ ctl = "api"
WebhookSpec == WebhookInit /\ [][WebhookNext]_vars
NameInit == Init /\ ctl = "name"
NameSpec == NameInit /\ [][CallGetTaskName]_vars
CoreInit == Init /\ ctl = "core"
CoreSpec == CoreInit /\ [][CoreNext]_vars

----------------------------------------------------------------------------
(* Properties of the experiment reconciler *)

InPass == ctl = "exp" /\ pc \in {"iter", "get", "update", "done"} /\ outer.exists
LoopDone == ctl = "exp" /\ pc \in {"get", "update", "done"} /\ outer.exists
Invoked(e) == e.op # "none"
KeyCount(recs, t, s) ==
    Cardinality({i \in 1..Len(recs) : recs[i].id = t /\ recs[i].key = s})
SameMembers(r1, r2) ==
    \A t \in Targets, s \in SelectorNames : KeyCount(r1, t, s) = KeyCount(r2, t, s)
NoDuplicate(recs) ==
    \A t \in Targets, s \in SelectorNames : KeyCount(recs, t, s) <= 1

(* C2: in a pass, a record gets Apply iff the fetched desired phase is Running
   and its phase is not Injected, Recover iff the desired phase is Stopped and
   its phase is not NotInjected, and no call otherwise; after a call without
   error its phase is the phase the call returned, and without a call its phase
   is unchanged. *)
C2_ActionDispatch ==
    InPass =>
        \A i \in 1..Len(log) :
            /\ log[i].op = "Apply" <=>
                   (outer.desired = RunningPhase /\ log[i].before # Injected)
            /\ log[i].op = "Recover" <=>
                   (outer.desired = StoppedPhase /\ log[i].before # NotInjected)
            /\ log[i].op \in {"Apply", "Recover", "none"}
            /\ (Invoked(log[i]) /\ ~log[i].err) => records[i].phase = log[i].phase
            /\ ~Invoked(log[i]) => records[i].phase = log[i].before

C2_Witness ==
    /\ ctl = "exp" /\ pc = "done"
    /\ \E i, j \in 1..Len(log) :
          /\ log[i].op = "Apply" /\ ~log[i].err /\ records[i].phase = Injected
          /\ log[j].op = "none"

(* C3: a record whose Apply or Recover returned an error has, in memory and in
   the status the pass wrote, the phase it had before the call. *)
C3_ErrorKeepsPhase ==
    InPass =>
        \A i \in 1..Len(log) :
            log[i].err =>
                /\ records[i].phase = log[i].before
                /\ (wrote > 0 => chaos.records[i].phase = log[i].before)

(* C4: once the stored record list is non-empty, no step changes how many
   records it holds for each (target id, selectorKey), and it never holds two
   records for the same pair. *)
C4_MembershipStable ==
    [][ /\ chaos.records # <<>> => SameMembers(chaos'.records, chaos.records)
        /\ NoDuplicate(chaos'.records) ]_vars

C4_Witness ==
    /\ ctl = "exp" /\ pc = "done" /\ wrote > 0
    /\ outer.records # <<>> /\ chaos.records # outer.records

(* C5: right after the fetch, if the fetched list was nil every declared
   selector has been resolved and the local list holds exactly one NotInjected
   record per resolved target of each selector; otherwise no selector has been
   resolved and the local list is the fetched one. *)
C5_FirstPopulation ==
    (InPass /\ pc = "iter" /\ index = 1 /\ log = <<>>) =>
        IF outer.records = <<>>
        THEN /\ resolved = selectors
             /\ \A s \in selectors, t \in Targets :
                    KeyCount(records, t, s) = IF t \in selResult[s].targets THEN 1 ELSE 0
             /\ \A i \in 1..Len(records) :
                    records[i].phase = NotInjected /\ records[i].key \in selectors
        ELSE resolved = {} /\ records = outer.records

C5_Witness ==
    /\ InPass /\ pc = "iter" /\ index = 1 /\ log = <<>>
    /\ outer.records = <<>> /\ Len(records) >= 2

(* C6: a selector whose resolution failed in a pass is resolved again in the
   next pass of the experiment that fetches it. *)
C6_SelectorRetried == InPass => prevFailed \subseteq resolved

(* C7: a failing call does not stop the loop: when the loop is over every
   record has been examined and every record whose phase differed from the
   desired one had its action invoked; if an action was invoked the pass goes on
   to the status update, and when that update returns no error the stored
   records are the records of the pass. *)
C7_ContinueOnError ==
    LoopDone =>
        /\ Len(log) = Len(records)
        /\ \A j \in 1..Len(log) :
              Dispatch(outer.desired, log[j].before) # "none" => Invoked(log[j])
        /\ (\E j \in 1..Len(log) : Invoked(log[j])) =>
              /\ shouldUpdate
              /\ (pc = "done" /\ updateError = "nil") =>
                     (wrote = 1 /\ chaos.records = records)

C7_Witness ==
    /\ LoopDone /\ pc = "done" /\ wrote = 1
    /\ \E i, j \in 1..Len(log) :
          i < j /\ log[i].err /\ Invoked(log[j]) /\ ~log[j].err

ExpPassStep ==
    \/ ExpIterate(FALSE)
    \/ ExpLoopEnd
    \/ ExpRetryGet(FALSE)
    \/ ExpRetryUpdate(FALSE)
    \/ ExpReturn

(* What is left of a pass, counted in steps: it bounds the length of the pass *)
ExpMeasure ==
    CASE pc = "idle" -> 0
      [] pc = "done" -> 1
      [] pc = "update" -> 2 * (DefaultBackoffSteps - steps)
      [] pc = "get" -> 2 * (DefaultBackoffSteps - steps) + 1
      [] pc = "iter" -> 2 * DefaultBackoffSteps + 3 + Len(records) - index

(* C9: a pass terminates (in every state of a pass a step of the pass is
   enabled, and every step of the pass lowers a natural-valued measure), it
   calls Update at most DefaultBackoffSteps times, and when every attempt
   conflicted it has written nothing, the stored records are those it fetched,
   and Reconcile returns normally. *)
C9_BoundedRetry ==
    /\ [](ctl = "exp" =>
            /\ tried <= DefaultBackoffSteps
            /\ ExpMeasure >= 0
            /\ pc # "idle" => ENABLED ExpPassStep
            /\ (pc = "done" /\ updateError = "conflict") =>
                  /\ tried = DefaultBackoffSteps
                  /\ wrote = 0
                  /\ chaos.records = outer.records
                  /\ ret = "nil")
    /\ [][(ctl = "exp" /\ pc # "idle" /\ <<pc, index, steps>>' # <<pc, index, steps>>)
             => ExpMeasure' < ExpMeasure]_vars

C9_Witness ==
    ctl = "exp" /\ pc = "done" /\ updateError = "conflict" /\ tried = DefaultBackoffSteps

----------------------------------------------------------------------------
(* Properties of the three reconcilers *)

(* The object a retry attempt works on, as stored *)
Stored ==
    CASE ctl = "exp" -> chaos
      [] ctl = "pause" -> IF index \in DOMAIN items THEN jobs[items[index].id] ELSE NoJob
      [] OTHER -> node

InAttempt == pc = "update"
Accepted == wrote' = wrote + 1

(* C8: in each of the three reconcilers the copy an attempt submits is the one
   fetched in that attempt; an Update is accepted only from an attempt whose
   fetched version is still the stored one, and it leaves what the attempt did
   not mutate as stored; an Update that finds another version writes nothing,
   and if the retry goes on it goes back to the fetch of a new attempt. *)
C8_ReadModifyWrite ==
    /\ [](InAttempt => held.ver = attemptVer)
    /\ [][Accepted =>
             /\ InAttempt /\ Stored.exists
             /\ Stored.ver = attemptVer /\ held.ver = Stored.ver
             /\ ctl = "exp" => chaos'.desired = chaos.desired /\ chaos'.records = held.records
             /\ ctl = "pause" => jobs'[items[index].id].ann = held.ann
             /\ ctl = "par" => node'.tasks = node.tasks /\ node'.gen = node.gen]_vars
    /\ [][(InAttempt /\ Stored.ver # held.ver) =>
             /\ ~Accepted
             /\ ctl = "exp" => chaos'.records = chaos.records
             /\ ctl = "pause" => \A j \in JobIds : jobs'[j].ann = jobs[j].ann
             /\ ctl = "par" => node'.finished = node.finished /\ node'.active = node.active
             /\ pc' \in {"update", "get", "done"}
             /\ pc' = "get" => steps' = steps + 1]_vars

C8_Witness ==
    /\ ctl = "exp" /\ pc = "done" /\ steps >= 1 /\ wrote = 1
    /\ chaos.records # outer.records

(* C10: a pass of any of the three reconcilers in which a failure occurred
   returns a non-nil error. *)
C10_ErrorSurfaced == (pc = "done" /\ failed) => ret = "err"

(* C11: in each of the three reconcilers, when the Get of a retry attempt finds
   that the object no longer exists, the pass ends there, without a write, and
   Reconcile returns no error. *)
C11_CancelOnDelete ==
    [][(pc = "get" /\ ~Stored.exists /\ pc' # pc) =>
          /\ pc' = "done"
          /\ wrote' = wrote
          /\ ret' = "nil"]_vars

(* The object the first Get of a pass asks for, as stored *)
Requested ==
    CASE ctl = "exp" -> chaos
      [] ctl = "pause" -> schedule
      [] OTHER -> node

(* C12: in each of the three reconcilers, a pass whose first Get finds no
   object ends at once: it resolves no selector and calls no action, it gets,
   creates, deletes and updates nothing, it emits no event, and it returns nil
   (every return of the three Reconcile functions carries the zero Result, which
   asks for no requeue). *)
C12_NotFoundNoOp ==
    [][(ctl \in {"exp", "pause", "par"} /\ pc = "idle" /\ ~Requested.exists
            /\ pc' # "idle") =>
          /\ pc' = "done" /\ ret' = "nil"
          /\ wrote' = 0 /\ tried' = 0
          /\ log' = <<>> /\ resolved' = {}
          /\ touched' = NoTouch /\ events' = 0
          /\ made' = NoMade
          /\ UNCHANGED <<chaos, schedule, jobs, node, children>>]_vars

C12_Witness ==
    /\ ctl = "par" /\ pc = "done" /\ ~node.exists /\ ~outer.exists
    /\ ret = "nil" /\ children # {}

----------------------------------------------------------------------------
(* Properties of the pause propagator *)

(* A pass of the propagator that fetched the schedule and listed its jobs *)
PauseListed == ctl = "pause" /\ outer.exists /\ pc \in {"loop", "get", "update", "done"}
PauseDone == ctl = "pause" /\ outer.exists /\ pc = "done"

(* C14: when a pass that listed the jobs ends without a failure, every listed
   job, as stored, is paused iff the schedule was paused when the pass fetched
   it; a job the pass un-paused carries the annotation "false". *)
C14_PausePropagated ==
    (PauseDone /\ ~failed) =>
        \A i \in 1..Len(items) :
            LET job == jobs[items[i].id]
            IN /\ IsPaused(job) = outer.paused
               /\ touched[job.id].updates > 0 => job.ann = FormatBool(outer.paused)

C14_Witness ==
    /\ PauseDone /\ ~failed /\ ~outer.paused /\ Len(items) = 2
    /\ items[1].ann = "true" /\ jobs[items[1].id].ann = "false"
    /\ items[2].ann = "none" /\ jobs[items[2].id].ann = "none"

(* The positions of the listed jobs that disagree with the schedule as fetched *)
Disagreeing == {i \in 1..Len(items) : IsPaused(items[i]) # outer.paused}

(* What a finished pass did to the listed jobs: one successful Update per
   disagreeing job, and neither a Get nor an Update for a job that agrees *)
OnlyDisagreeingTouched ==
    /\ wrote = Cardinality(Disagreeing)
    /\ \A i \in 1..Len(items) :
          LET t == touched[items[i].id]
          IN IF i \in Disagreeing
             THEN t.updates = 1 /\ jobs[items[i].id].ann = FormatBool(outer.paused)
             ELSE ~t.got /\ t.updates = 0 /\ jobs[items[i].id].ann = items[i].ann

(* C15 as stated: at the end of every pass the number of successful job Updates
   is the number of listed jobs that disagree with the schedule, and a job that
   agrees received no Get and no Update. *)
C15_OnlyDisagreeing == PauseDone => OnlyDisagreeingTouched

(* C15 amended: the same at the end of every pass in which nothing failed; in a
   pass that a failed job update aborted fewer Updates succeed, but also then a
   job that agrees receives no Get and no Update. *)
C15_OnlyDisagreeingNoFailure ==
    /\ (PauseDone /\ ~failed) => OnlyDisagreeingTouched
    /\ PauseListed =>
          \A i \in 1..Len(items) :
              i \notin Disagreeing =>
                  ~touched[items[i].id].got /\ touched[items[i].id].updates = 0

C15_Witness ==
    /\ PauseDone /\ ~failed /\ outer.paused /\ Len(items) = 2
    /\ items[1].ann = "true" /\ items[2].ann \in {"false", "none"}
    /\ wrote = 1 /\ jobs[items[2].id].ann = "true"
    /\ ~touched[items[1].id].got

(* C17: when the update of a listed job fails, the pass ends there: no job
   listed after it has been fetched or updated, one warning event was emitted
   on the schedule, and every disagreeing job listed before it was updated
   once and carries the annotation of the schedule. *)
C17_BatchAbort ==
    (PauseDone /\ updateError # "nil") =>
        /\ index \in 1..Len(items)
        /\ events = 1
        /\ ret = "nil"
        /\ \A i \in 1..Len(items) :
              LET t == touched[items[i].id]
                  job == jobs[items[i].id]
              IN /\ i > index => ~t.got /\ t.updates = 0 /\ job.ann = items[i].ann
                 /\ i = index => t.updates = 0 /\ job.ann = items[i].ann
                 /\ (i < index /\ i \in Disagreeing) =>
                        /\ t.updates = 1
                        /\ job.ann = (IF outer.paused THEN "true" ELSE "false")

C17_Witness ==
    /\ PauseDone /\ updateError = "conflict" /\ Len(items) = 3 /\ index = 2
    /\ Disagreeing = {1, 2, 3}
    /\ touched[items[1].id].updates = 1 /\ ~touched[items[3].id].got
    /\ IsPaused(jobs[items[1].id]) = outer.paused

(* Eventual consistency of the pause propagator: the schedule and its set of
   jobs stay fixed, no other writer touches the jobs, the environment injects
   at most MaxFaults failures, and the framework keeps triggering passes. *)

JobsConsistent ==
    \A j \in JobIds : jobs[j].exists => IsPaused(jobs[j]) = schedule.paused

InitPauseLive ==
    /\ budget = MaxFaults
    /\ InitPass /\ InitExpVars /\ InitPause /\ InitParVars /\ InitSideVars

PauseLiveNext ==
    \/ PauseFetch(TRUE)
    \/ PauseLoop
    \/ PauseRetryGet(TRUE)
    \/ PauseRetryUpdate(TRUE)
    \/ PauseReturn

PauseLiveSpec == InitPauseLive /\ [][PauseLiveNext]_vars /\ WF_vars(PauseLiveNext)

(* C16: with a fixed schedule and job set, repeated passes reach a state from
   which on every existing job is paused iff the schedule is, whatever passes
   were aborted by a failed job update before. *)
C16_PauseEventually == <>[]JobsConsistent

C16_Witness ==
    /\ ctl = "pause" /\ pc = "done" /\ ~failed /\ budget = 0
    /\ wrote >= 1 /\ JobsConsistent
    /\ \A j \in JobIds : jobs[j].exists

----------------------------------------------------------------------------
(* Properties of the parallel node reconciler *)

(* A pass of the parallel node reconciler that has just written the status *)
ParWritten == ctl = "par" /\ pc = "done" /\ wrote = 1

(* The declared tasks that have no finished child *)
Unfinished(kids, tasks) ==
    {t \in Range(tasks) : \A k \in FinishedChildren(kids) : k.task # t}

(* C18: right after a successful status update of a parallel node,
   Accomplished is True if the number of finished children is the number of
   declared tasks and False otherwise, and it is False whenever some declared
   task has no finished child. *)
C18_CompletionLaw ==
    ParWritten =>
        /\ node.accomplished =
              (IF Cardinality(FinishedChildren(children)) = Len(node.tasks)
               THEN "True" ELSE "False")
        /\ Unfinished(children, node.tasks) # {} => node.accomplished = "False"

(* The children that existed when the pass listed them in syncChildrenNodes:
   those it deleted and those it did not create *)
ExistingAtSync ==
    made.deleted \cup {k \in children : \A c \in made.created : c.id # k.id}

(* A pass that listed the children and found the task name of each of them in
   the declared task list *)
SyncedWithoutRedefinition ==
    /\ ctl = "par" /\ made.listed
    /\ PrefixNames(ExistingAtSync) \subseteq Range(outer.tasks)

(* syncChildrenNodes of the pass is over *)
SyncOver == pc \in {"get", "update", "done"}

(* No child is deleted, and the tasks scheduled are the declared tasks without
   an existing child, each of them once *)
SchedulesComplement ==
    /\ made.deleted = {}
    /\ Range(made.scheduled) = Range(outer.tasks) \ PrefixNames(ExistingAtSync)
    /\ \A i, j \in DOMAIN made.scheduled : i # j => made.scheduled[i] # made.scheduled[j]

(* One child is created for each scheduled task, and no other child *)
OneChildPerScheduled ==
    /\ \A i \in DOMAIN made.scheduled :
          Cardinality({k \in made.created : k.task = made.scheduled[i]}) = 1
    /\ \A k \in made.created : k.task \in Range(made.scheduled)

(* C19 as stated: when the task name of every existing child is in the declared
   task list, the pass deletes no child, schedules exactly the declared tasks
   that have no existing child, and creates one child per scheduled task. *)
C19_TaskDiff ==
    (SyncedWithoutRedefinition /\ SyncOver) =>
        SchedulesComplement /\ OneChildPerScheduled

(* C19: when the task name of every existing child is in the declared task
   list, the pass deletes no child and schedules exactly the declared tasks
   that have no existing child; when syncChildrenNodes returns no error, one
   child is created per scheduled task. *)
C19_TaskDiffNoFailure ==
    SyncedWithoutRedefinition =>
        /\ SchedulesComplement
        /\ pc \in {"get", "update"} => OneChildPerScheduled

C19_Witness ==
    /\ SyncedWithoutRedefinition /\ pc = "update"
    /\ outer.tasks = <<"a", "b">>
    /\ PrefixNames(ExistingAtSync) = {"a"}
    /\ made.scheduled = <<"b">>
    /\ \E k \in children : k.task = "b" /\ made.created = {k}

(* A pass that listed the children and found a child whose task name is not in
   the declared task list *)
SyncedWithRedefinition ==
    /\ ctl = "par" /\ made.listed
    /\ ~(PrefixNames(ExistingAtSync) \subseteq Range(outer.tasks))

(* C20: when some existing child has a task name that is not in the declared
   task list, the pass deletes every existing child, active or finished, and
   schedules every declared task for creation. *)
C20_FullRedefinition ==
    SyncedWithRedefinition =>
        /\ made.deleted = ExistingAtSync
        /\ made.scheduled = outer.tasks

(* The tasks of the children the pass created *)
CreatedTasks == {k.task : k \in made.created}

(* C21: when the Create of one child of the batch fails, the pass ends there and
   Reconcile returns the error: the tasks after the failed one get no child,
   the children created before it are left in place, and the status of the
   node is not written. *)
C21_CreateAbort ==
    (ctl = "par" /\ made.createErr) =>
        /\ pc = "done" /\ ret = "err"
        /\ toCreate # <<>>
        /\ Len(made.scheduled) = Cardinality(made.created) + Len(toCreate)
        /\ \A i \in 1..Len(toCreate) :
              Cardinality({k \in made.created : k.task = toCreate[i]}) =
              Cardinality({j \in 1..Cardinality(made.created) :
                              made.scheduled[j] = toCreate[i]})
        /\ made.created \subseteq children
        /\ wrote = 0 /\ tried = 0 /\ node = outer

C21_Witness ==
    /\ ctl = "par" /\ made.createErr /\ pc = "done"
    /\ Cardinality(made.created) = 1 /\ Len(toCreate) = 1
    /\ made.created \subseteq children

(* Passes over a parallel node whose declared tasks stay as they are, with its
   parent workflow, and with at most one child left by an earlier task list;
   at most MaxFaults calls fail, and a Delete fails only as the first of them *)
InitParLive ==
    /\ budget = MaxFaults
    /\ InitPass /\ InitExpVars /\ InitPauseVars /\ InitSideVars
    /\ ctl = "par"
    /\ \E ts \in TaskLists :
          /\ Len(ts) > 0
          /\ node = [NoNode EXCEPT !.exists = TRUE, !.type = TypeParallel, !.tasks = ts]
          /\ \/ children = {}
             \/ \E t \in TaskNames \ Range(ts), f \in BOOLEAN :
                   children = {[task |-> t, id |-> 1, finished |-> f]}
    /\ workflow = TRUE
    /\ toCreate = <<>>
    /\ made = NoMade

ParPass ==
    \/ /\ ParFetch(TRUE)
       /\ (made'.redefined /\ children' # {}) => budget = MaxFaults
    \/ ParCreate(TRUE)
    \/ ParRetryGet(TRUE)
    \/ ParRetryUpdate(TRUE)
    \/ ParReturn

ParLiveNext ==
    \/ ParPass
    \/ \E k \in children : ChildFinish(k)

ParLiveSpec == InitParLive /\ [][ParLiveNext]_vars /\ WF_vars(ParPass)

KidNames == {NameOf(k) : k \in children}
NoRepeat(tasks) == \A i, j \in DOMAIN tasks : i # j => tasks[i] # tasks[j]

(* The task names of the children are the declared tasks, one child each *)
Healed ==
    /\ PrefixNames(children) = Range(node.tasks)
    /\ \A t \in Range(node.tasks) : Cardinality({k \in children : k.task = t}) = 1

(* C22 as stated: when the declared tasks stay fixed and only finitely many
   calls fail, repeated passes reach a state from which on the task names of
   the children are the declared tasks with one child per task, and once that
   is so no child is created or deleted. *)
C22_DiffHeals ==
    /\ <>[]Healed
    /\ [][Healed => KidNames' = KidNames]_vars

(* C22: for a declared task list without a repeated name that stays fixed, when
   only finitely many calls fail, repeated passes reach a state from which on
   the task names of the children are the declared tasks with one child per
   task, and once that is so no child is created or deleted. *)
C22_DiffHealsDistinct ==
    /\ <>[](NoRepeat(node.tasks) => Healed)
    /\ [][(NoRepeat(node.tasks) /\ Healed) => KidNames' = KidNames]_vars

C22_Witness ==
    /\ ctl = "par" /\ budget < MaxFaults /\ pc = "done" /\ ret = "nil"
    /\ node.tasks = <<"a", "b">> /\ Healed
    /\ ~made.redefined /\ made.scheduled = <<"b">>
    /\ \E k \in children : k.task = "b" /\ made.created = {k}

(* A pass of the parallel node reconciler that fetched a node of another type *)
OtherTypeFetched ==
    ctl = "par" /\ pc # "idle" /\ outer.exists /\ outer.type # TypeParallel

(* C23: a pass of the parallel node reconciler that fetches a node whose type
   is not Parallel ends at once: it creates no child, deletes no child, does
   not write the status of the node, and returns no error. *)
C23_TypeFilter ==
    OtherTypeFetched =>
        /\ pc = "done" /\ ret = "nil"
        /\ made = NoMade /\ toCreate = <<>>
        /\ wrote = 0 /\ tried = 0 /\ node = outer

C23_Witness ==
    /\ OtherTypeFetched /\ pc = "done"
    /\ Len(outer.tasks) > 0 /\ children = {} /\ workflow

----------------------------------------------------------------------------
(* Properties of the HTTP chaos reconciler *)

(* The duration of the experiment is missing or its string does not parse *)
BadDuration ==
    ~httpChaos.duration.present \/ ~ParseDuration(httpChaos.duration.str).ok

(* C24: when the duration of the experiment is missing or its string cannot be
   parsed, Reconcile returns an error without running the common reconciler:
   in that pass no pod is selected, Apply and Recover are not called, no
   finalizer and no record is added and no status is written.  "1x", "1", ""
   and "-" do not parse; "1s", "1ms", "-0" and "1m1s" do. *)
C24_MalformedFatal ==
    /\ (ctl = "http" /\ BadDuration /\ pc # "idle") =>
          /\ pc = "done" /\ ret = "err"
          /\ group = NoGroup /\ sent = <<>> /\ httpChaos.finalizers = {}
          /\ records = <<>> /\ log = <<>> /\ wrote = 0 /\ tried = 0
    /\ \A str \in {<<"1", "x">>, <<"1">>, <<>>, <<"-">>} : ~ParseDuration(str).ok
    /\ \A str \in {<<"1", "s">>, <<"1", "m", "s">>, <<"-", "0">>,
                    <<"1", "m", "1", "s">>} : ParseDuration(str).ok

C24_Witness ==
    /\ ctl = "http" /\ pc = "done" /\ ret = "err"
    /\ httpChaos.duration = [present |-> TRUE, str |-> <<"1", "x">>]

(* applyAllPods has returned *)
ApplyAllReturned == ctl = "http" /\ group.returned # "none"

(* C25: applyAllPods returns only after the apply of every pod of the set has
   been started and has completed; a failed apply on one pod leaves the apply
   on every other pod able to run; and the error returned is non-nil iff the
   apply on at least one pod failed. *)
C25_FanOutJoin ==
    /\ ApplyAllReturned =>
          /\ Len(group.run) = Len(pods)
          /\ \A i \in DOMAIN group.run :
                group.run[i] \in {"ok", "failed"} /\ sent[i] # <<>>
          /\ group.returned = "err" <=> \E i \in DOMAIN group.run : group.run[i] = "failed"
    /\ ctl = "http" =>
          \A i \in DOMAIN group.run :
              group.run[i] = "running" => ENABLED HttpPodApply(i, FALSE)

C25_Witness ==
    /\ ApplyAllReturned /\ group.returned = "err"
    /\ group.run = <<"failed", "ok">>

CustomChains == {inputFilterName, outputFilterName}

(* The operation creates the chain c *)
Creates(op, c) == op.command = "NEW" /\ op.chain = c

(* The operation names the chain c as the chain it adds to or as its jump *)
Uses(op, c) == op.command = "ADD" /\ (op.chain = c \/ op.action = c)

(* C28: in the operation list built for a pod, the first two operations create
   the chains HTTP-CHAOS-INPUT and HTTP-CHAOS-OUTPUT, the next two are the ADD
   operations that jump to them, the operations after those are the drop
   rules, and every operation that adds to or jumps to one of the two chains
   comes after the operation that creates it. *)
C28_ChainOrder ==
    ctl = "http" =>
        \A i \in DOMAIN sent :
            LET ops == sent[i]
            IN ops # <<>> =>
                 /\ Len(ops) >= 4
                 /\ Creates(ops[1], inputFilterName) /\ Creates(ops[2], outputFilterName)
                 /\ ops[3].command = "ADD" /\ ops[3].action = inputFilterName
                 /\ ops[3].chain \notin CustomChains /\ ops[3].dport = Join(pods[i].ports)
                 /\ ops[4].command = "ADD" /\ ops[4].action = outputFilterName
                 /\ ops[4].chain \notin CustomChains /\ ops[4].sport = Join(pods[i].ports)
                 /\ \A k \in 5..Len(ops) :
                       /\ ops[k].command = "ADD" /\ ops[k].action = "DROP"
                       /\ ops[k].chain \in CustomChains
                 /\ \A k \in 1..Len(ops), c \in CustomChains :
                       Uses(ops[k], c) => \E j \in 1..(k - 1) : Creates(ops[j], c)

C28_Witness ==
    /\ ctl = "http" /\ httpChaos.action = HTTPAbortAction
    /\ \E i \in DOMAIN sent :
          /\ Len(sent[i]) = 6 /\ pods[i].ports = <<"80", "8080">>
          /\ sent[i][3].dport = "80,8080"
          /\ sent[i][5].chain = inputFilterName /\ sent[i][6].chain = outputFilterName

----------------------------------------------------------------------------
(* Properties of the chaos daemon *)

(* C13: while no recover intervenes, every successful enable after the first
   leaves resolv.conf as the first left it; a recover that follows restores the
   file as it was before the first enable; and an enable that follows a
   successful enable with a valid request returns no error unless a command of
   the call fails. *)
C13_ApplyIdempotent ==
    ctl = "dns" =>
        /\ (dnsHist.applies >= 1 /\ dnsHist.clean) => resolvConf = dnsHist.once
        /\ dnsHist.restored => resolvConf = dnsHist.pristine
        /\ (dnsHist.applies >= 2 /\ dnsHist.clean) => dnsRet = "nil"

----------------------------------------------------------------------------
(* Convergence of the experiment reconciler: the desired phase stays fixed, no
   other writer touches the object, the environment injects at most MaxFaults
   failures, and the framework keeps triggering passes. *)

PhaseWanted(desired) == IF desired = RunningPhase THEN Injected ELSE NotInjected

StoredConverged ==
    chaos.desired \in {RunningPhase, StoppedPhase} =>
        \A i \in 1..Len(chaos.records) : chaos.records[i].phase = PhaseWanted(chaos.desired)

InitLive ==
    /\ budget = MaxFaults
    /\ ctl = "exp"
    /\ selectors \in {{"a"}, SelectorNames}
    /\ \E d \in {RunningPhase, StoppedPhase} :
       \E order \in Orders(selectors), res \in [selectors -> SelectOutcomes] :
          LET recs == Populate(order, res, 1)
          IN \E ph \in [1..Len(recs) -> Phases] :
                /\ chaos = [exists |-> TRUE, ver |-> 0, desired |-> d,
                            records |-> [i \in 1..Len(recs) |->
                                            [recs[i] EXCEPT !.phase = ph[i]]]]
                /\ faults = [applied |-> {<<recs[i].id, recs[i].key>> :
                                             i \in {j \in 1..Len(recs) : ph[j] = Injected}},
                             write |-> "ok"]
    /\ desiredPhase = "" /\ records = <<>> /\ shouldUpdate = FALSE /\ log = <<>>
    /\ resolved = {} /\ selResult = <<>> /\ prevFailed = {}
    /\ InitPass /\ InitPauseVars /\ InitParVars /\ InitSideVars

LiveNext ==
    \/ ExpFetch(TRUE)
    \/ ExpIterate(TRUE)
    \/ ExpLoopEnd
    \/ ExpRetryGet(TRUE)
    \/ ExpRetryUpdate(TRUE)
    \/ ExpReturn

LiveSpec == InitLive /\ [][LiveNext]_vars /\ WF_vars(LiveNext)

(* C1: with a fixed desired phase, repeated passes reach a state from which on
   every stored record has the phase the desired phase asks for (Running:
   Injected, Stopped: NotInjected). *)
C1_Convergence == <>[]StoredConverged

C1_Witness ==
    /\ pc = "done" /\ budget = 0 /\ wrote > 0
    /\ Len(chaos.records) >= 2 /\ chaos.desired = RunningPhase /\ StoredConverged
    /\ \E i \in 1..Len(outer.records) : outer.records[i].phase # Injected

----------------------------------------------------------------------------
(* Properties of BandwidthSpec.ToTbf *)

Called == ctl = "tbf" /\ tbf # NoResult
IsNumber(str) == Len(str) > 0 /\ \A i \in 1..Len(str) : str[i] \in DigitChars
UnitPower(k) == RateUnits[Len(RateUnits) - k]
NumberBefore(rate, k) == SubSeq(rate, 1, Len(rate) - Len(UnitPower(k)))

(* the rate is "<n><unit>" with the unit of k factors of 1024 *)
NumberAndUnit(rate, k) ==
    /\ HasSuffix(rate, UnitPower(k))
    /\ IsNumber(NumberBefore(rate, k))

(* digit i, in base 1024 and lowest first, of n * 1024^k as a natural number *)
ProductLimb(n, k, i) ==
    IF i <= k \/ i > k + 4 THEN 0
    ELSE IF i = k + 1 THEN n % Limb
    ELSE IF i = k + 2 THEN (n \div Limb) % Limb
    ELSE IF i = k + 3 THEN (n \div (Limb * Limb)) % Limb
    ELSE n \div (Limb * Limb * Limb)

FitsIn64Bits(n, k) ==
    /\ \A i \in (WordLimbs + 1)..(k + 4) : ProductLimb(n, k, i) = 0
    /\ ProductLimb(n, k, WordLimbs) < TopLimb

(* C26: for a rate "<n><unit>" with n a decimal unsigned integer and the unit
   one of bps, kbps, mbps, gbps, tbps, ToTbf returns no error and a descriptor
   whose rate is n * 1024^k, k being 0, 1, 2, 3, 4 for these units, and whose
   limit and buffer are those of the bandwidth, provided n * 1024^k fits in 64
   bits. *)
C26_RateValue ==
    Called =>
        \A k \in 0..(Len(RateUnits) - 1) :
            LET n == DecimalValue(NumberBefore(bandwidth.rate, k))
            IN (NumberAndUnit(bandwidth.rate, k) /\ FitsIn64Bits(n, k)) =>
                  /\ tbf.err = "nil"
                  /\ \A i \in 1..WordLimbs : tbf.tbf.rate[i] = ProductLimb(n, k, i)
                  /\ tbf.tbf.limit = bandwidth.limit
                  /\ tbf.tbf.buffer = bandwidth.buffer

C26_Witness ==
    /\ Called
    /\ bandwidth.rate = <<"2", "g", "b", "p", "s">>
    /\ tbf.err = "nil"
    /\ tbf.tbf.rate = <<0, 0, 0, 2, 0, 0, 0>>
    /\ tbf.tbf.limit = 1

(* what follows the leading digits of the rate *)
RECURSIVE UnitOf(_)
UnitOf(rate) ==
    IF rate # <<>> /\ Head(rate) \in DigitChars THEN UnitOf(Tail(rate)) ELSE rate

UnknownUnit(rate) ==
    /\ \A i \in 1..Len(rate) : rate[i] # " "
    /\ \A k \in 0..(Len(RateUnits) - 1) : ToLower(UnitOf(rate)) # UnitPower(k)

(* C27: for a rate whose unit is not one of bps, kbps, mbps, gbps, tbps, ToTbf
   returns the error "invalid rate unit" and no descriptor. *)
C27_InvalidUnit ==
    (Called /\ UnknownUnit(bandwidth.rate)) => tbf.err = ErrInvalidRateUnit

(* the half of it that holds: such a rate never gives a descriptor *)
C27_NoDescriptor ==
    (Called /\ UnknownUnit(bandwidth.rate)) => tbf.err # "nil"

----------------------------------------------------------------------------
(* Properties of the experiment types *)

(* C29: on every experiment object, for a time t that is not the zero time,
   GetNextStart after SetNextStart(t) returns t and GetNextRecover after
   SetNextRecover(t) returns t; for the zero time the setter clears the field
   and the getter returns the zero time; and a setter leaves the other field
   as it was. *)
C29_RoundTrip ==
    ctl = "api" =>
        \A t \in Times :
            LET s == SetNextStart(edited, t)
                r == SetNextRecover(edited, t)
            IN /\ ~IsZero(t) => GetNextStart(s) = t /\ GetNextRecover(r) = t
               /\ IsZero(t) => /\ ~s.spec.nextStart.present
                               /\ ~r.spec.nextRecover.present
                               /\ GetNextStart(s) = ZeroTime
                               /\ GetNextRecover(r) = ZeroTime
               /\ s.spec.nextRecover = edited.spec.nextRecover
               /\ GetNextRecover(s) = GetNextRecover(edited)
               /\ r.spec.nextStart = edited.spec.nextStart
               /\ GetNextStart(r) = GetNextStart(edited)

(* on an experiment created with a NextStart, the client has set both fields
   of its copy, to different times *)
C29_Witness ==
    /\ ctl = "api"
    /\ edited.spec.nextStart.present /\ edited.spec.nextRecover.present
    /\ GetNextStart(edited) # GetNextRecover(edited)
    /\ GetNextStart(edited).loc = "Local"
    /\ experiment.spec.nextStart.present

UpdateStep == \E valid \in BOOLEAN : ClientUpdate(valid)

(* C30: ValidateUpdate answers ErrCanNotUpdateChaos to every update whose spec
   differs from the spec of the stored object, which then stays as it is, and
   validates only an update whose spec is equal; so the spec of the stored
   experiment is always the spec it was created with. *)
C30_SpecImmutable ==
    /\ [](ctl = "api" => experiment.spec = created)
    /\ [][UpdateStep =>
            /\ edited.spec # experiment.spec =>
                  verdict' = ErrCanNotUpdateChaos /\ experiment' = experiment
            /\ verdict' \in {"nil", "invalid"} => edited.spec = experiment.spec
            /\ verdict' \in {"nil", "invalid", ErrCanNotUpdateChaos}]_vars

(* an update that changed the spec was refused, after an update that changed
   only the status was admitted *)
C30_Witness ==
    /\ ctl = "api"
    /\ verdict = ErrCanNotUpdateChaos
    /\ edited.spec # experiment.spec
    /\ experiment.phase = "Running"
    /\ experiment.spec = created

----------------------------------------------------------------------------
(* More properties of the experiment reconciler *)

(* A pass that fetched a list of records, each in the phase the fetched
   desired phase asks for, or with a desired phase that asks for none *)
AtRest ==
    /\ InPass /\ outer.records # <<>>
    /\ \/ /\ outer.desired = RunningPhase
          /\ \A i \in 1..Len(outer.records) : outer.records[i].phase = Injected
       \/ /\ outer.desired = StoppedPhase
          /\ \A i \in 1..Len(outer.records) : outer.records[i].phase = NotInjected
       \/ outer.desired \notin {RunningPhase, StoppedPhase}

(* C31: a pass that fetched a non-nil record list in which every record is in
   the phase the desired phase asks for, or whose desired phase is neither
   Running nor Stopped, calls neither Apply nor Recover, never enters the
   retry (no Get for update, no Update), and returns nil with the records as
   fetched. *)
C31_AtRestNoEffect ==
    AtRest =>
        /\ pc \in {"iter", "done"}
        /\ \A i \in 1..Len(log) : ~Invoked(log[i])
        /\ records = outer.records /\ ~shouldUpdate
        /\ held = NoObj /\ tried = 0 /\ wrote = 0 /\ steps = 0
        /\ pc = "done" => ret = "nil" /\ Len(log) = Len(records)

C31_Witness ==
    /\ AtRest /\ pc = "done" /\ ret = "nil"
    /\ outer.desired = RunningPhase
    /\ Len(log) = Len(outer.records)
    /\ chaos.records = outer.records

InRetry == ctl = "exp" /\ pc \in {"get", "update"}

(* C33: in a pass of the experiment reconciler each record is examined once,
   so it gets at most one call, and the retry of the status update makes no
   call: through all its attempts the call log and the records of the pass
   stay as the loop left them, each attempt works on a copy fetched anew, and
   what an accepted Update stores is that record list. *)
C33_NoRepeatOnRetry ==
    /\ [](InPass => /\ Len(log) <= Len(records)
                    /\ pc \in {"get", "update", "done"} => Len(log) = Len(records))
    /\ [][InRetry =>
            /\ log' = log /\ records' = records /\ index' = index
            /\ (pc = "get" /\ pc' = "update") =>
                  /\ held'.ver = chaos.ver /\ held'.desired = chaos.desired
                  /\ held'.records = records
            /\ wrote' # wrote => chaos'.records = records]_vars

C33_Witness ==
    /\ ctl = "exp" /\ pc = "done" /\ steps = 2 /\ tried = 3 /\ wrote = 1
    /\ chaos.records = records
    /\ \E i \in 1..Len(log) : log[i].op = "Apply" /\ ~log[i].err


\* The records of the stored list, as the <<target, selector>> pairs on which
\* Apply and Recover are invoked.
StoredPairs ==
    {<<chaos.records[i].id, chaos.records[i].key>> : i \in 1..Len(chaos.records)}

\* C32: no injected target is forgotten.  In every state where no pass is in
\* progress and the most recent status write of the experiment succeeded, every
\* target on which an Apply has succeeded without a later successful Recover
\* has a record in the stored record list.
C32_NoInjectedForgotten ==
    (ctl = "exp" /\ pc = "idle" /\ chaos.exists /\ faults.write = "ok")
        => faults.applied \subseteq StoredPairs


----------------------------------------------------------------------------
(* More properties of the parallel node reconciler *)

\* C34: at most one child per task.  In every reachable state of a parallel
\* node no two existing children of the node have the same derived task name.
C34_OneChildPerTask ==
    ctl = "par" =>
        \A k1, k2 \in children :
            k1 # k2 => TaskOf(NameOf(k1)) # TaskOf(NameOf(k2))


\* The finished children counted in the status of the node that derive from
\* the task t, and the places of t in the declared task list
CountedFor(t) == {n \in node.finished : TaskOf(n) = t}
DeclaredAt(t) == {i \in DOMAIN node.tasks : node.tasks[i] = t}

\* C35: Accomplished means the declared work is done.  When a pass has written
\* the Accomplished condition as True, every task of the declared task list,
\* counted as often as it is declared, has a finished child derived from it,
\* and no finished child that was counted derives from a task that is not
\* declared.
C35_AccomplishedMeansDone ==
    (ParWritten /\ node.accomplished = "True") =>
        /\ \A t \in Range(node.tasks) :
              Cardinality(CountedFor(t)) >= Cardinality(DeclaredAt(t))
        /\ \A n \in node.finished :
              TaskOf(n) \in Range(node.tasks)


----------------------------------------------------------------------------
(* Properties of getTaskNameFromGeneratedName *)

NameDerived == ctl = "name" /\ taskName # NoName
HasSeparator(s) == \E i \in 1..Len(s) : s[i] = "-"

\* C36: task name derivation round trip.  For every task name t, also one that
\* holds the separator, and every generated suffix s that holds none,
\* getTaskNameFromGeneratedName(t + "-" + s) = t; a name without a separator is
\* returned as it is.
C36_NameRoundTrip ==
    NameDerived =>
        /\ \A t \in TaskNameStrings, s \in Suffixes :
              generated = t \o <<"-">> \o s => taskName = t
        /\ ~HasSeparator(generated) => taskName = generated

C36_Witness ==
    /\ NameDerived
    /\ generated = <<"a", "-", "b", "-", "x", "1">>
    /\ taskName = <<"a", "-", "b">>


----------------------------------------------------------------------------
(* More properties of the HTTP chaos reconciler *)

\* The rules the comment of SetIptables documents, for ports joined as the
\* operations carry them and an action of the experiment
DocumentedRules(ports, action, percent) ==
    << [command |-> "NEW", chain |-> "HTTP-CHAOS-INPUT", dport |-> "", sport |-> "",
        action |-> "", probability |-> ""],
       [command |-> "NEW", chain |-> "HTTP-CHAOS-OUTPUT", dport |-> "", sport |-> "",
        action |-> "", probability |-> ""],
       [command |-> "ADD", chain |-> "INPUT", dport |-> ports, sport |-> "",
        action |-> "HTTP-CHAOS-INPUT", probability |-> ""],
       [command |-> "ADD", chain |-> "OUTPUT", dport |-> "", sport |-> ports,
        action |-> "HTTP-CHAOS-OUTPUT", probability |-> ""] >>
    \o (IF action \in {"abort", "mixed"}
        THEN << [command |-> "ADD", chain |-> "HTTP-CHAOS-INPUT", dport |-> "",
                 sport |-> "", action |-> "DROP", probability |-> percent],
                [command |-> "ADD", chain |-> "HTTP-CHAOS-OUTPUT", dport |-> "",
                 sport |-> "", action |-> "DROP", probability |-> percent] >>
        ELSE <<>>)

\* C37: the firewall rule list matches the documented rules.  The list built by
\* SetIptables for a pod is -N HTTP-CHAOS-INPUT, -N HTTP-CHAOS-OUTPUT, -A INPUT
\* with dport the container ports of the pod jumping to HTTP-CHAOS-INPUT,
\* -A OUTPUT with sport the container ports jumping to HTTP-CHAOS-OUTPUT, and
\* then the two DROP rules with the percent of the experiment as probability,
\* one per custom chain, iff the action is abort or mixed.
C37_DocumentedRules ==
    ctl = "http" =>
        \A i \in DOMAIN sent :
            sent[i] # <<>> =>
                sent[i] = DocumentedRules(Join(pods[i].ports), httpChaos.action,
                                          httpChaos.percent)

\* What does hold of the list: it is the documented one but for the name of the
\* chain of its fourth operation.
C37_RulesButChainName ==
    ctl = "http" =>
        \A i \in DOMAIN sent :
            sent[i] # <<>> =>
                /\ Len(sent[i]) >= 4 /\ sent[i][4].chain = "OUPUT"
                /\ [sent[i] EXCEPT ![4].chain = "OUTPUT"] =
                      DocumentedRules(Join(pods[i].ports), httpChaos.action,
                                      httpChaos.percent)


----------------------------------------------------------------------------
(* More properties of ToTbf *)

\* The rate in lower case and without the blanks around it
Normalized(rate) == ToLower(TrimSpace(rate))

\* C38: rate parsing ignores case and surrounding blanks.  For a rate whose
\* lower-cased, blank-trimmed form is "<n><unit>" with a valid unit, ToTbf
\* returns what it returns for that normalized string.
C38_CaseAndBlanksIgnored ==
    Called =>
        ((\E k \in 0..(Len(RateUnits) - 1) : NumberAndUnit(Normalized(bandwidth.rate), k))
            => tbf = ToTbf([bandwidth EXCEPT !.rate = Normalized(bandwidth.rate)]))

\* What does hold: blanks before the number are ignored, for a rate that is in
\* lower case and has no blank after its unit.
C38_LeadingBlanksIgnored ==
    Called =>
        ((/\ \E k \in 0..(Len(RateUnits) - 1) :
                NumberAndUnit(Normalized(bandwidth.rate), k)
          /\ HasSuffix(bandwidth.rate, Normalized(bandwidth.rate)))
            => tbf = ToTbf([bandwidth EXCEPT !.rate = Normalized(bandwidth.rate)]))


----------------------------------------------------------------------------
(* Properties of the read paths of the workflow repository *)

\* A read whose Get of the workflow and List of its nodes gave no error
Read == ctl = "core" /\ detail.outcome \notin {"none", "err"}

\* The topology has one entry per node, in the order of the nodes, and the
\* entry of a Serial or Parallel node carries the declared tasks of the node
OneEntryPerNode ==
    /\ Len(detail.nodes) = Len(kubeNodes)
    /\ \A i \in 1..Len(kubeNodes) :
          /\ detail.nodes[i].name = kubeNodes[i].name
          /\ kubeNodes[i].type = "Serial" =>
                /\ ~detail.nodes[i].serial.isNil
                /\ detail.nodes[i].serial.tasks = kubeNodes[i].tasks
          /\ kubeNodes[i].type = "Parallel" =>
                /\ ~detail.nodes[i].parallel.isNil
                /\ detail.nodes[i].parallel.tasks = kubeNodes[i].tasks

\* C39: topology conversion is total.  For every workflow and every set of its
\* nodes, both read paths, Get and GetWorkflowByNamespacedName, return a
\* topology with exactly one entry per workflow node without a nil
\* dereference, and the entry of a Serial or Parallel node carries the declared
\* task list of the node.
C39_ConversionTotal ==
    Read => detail.outcome = "nil" /\ OneEntryPerNode

\* What does hold: the claim for the read path Get, and for
\* GetWorkflowByNamespacedName on a workflow without Serial and Parallel nodes.
C39_GetTotal ==
    (/\ Read
     /\ \/ detail.path = "Get"
        \/ \A i \in 1..Len(kubeNodes) : kubeNodes[i].type \notin {"Serial", "Parallel"})
        => detail.outcome = "nil" /\ OneEntryPerNode

============================================================================
